---- MODULE Spec2Model ----
(***************************************************************************)
(* Model of the react-wasm-compiler playground core: the two compiler      *)
(* backends (SwcRunner = TranspileOnlyBackend, EsbuildRunner =             *)
(* BundlingBackend), their caches, the sandbox hand-off and the execution  *)
(* harness that SwcRunner.compileAndRun emits into the iframe.             *)
(***************************************************************************)
EXTENDS Integers, Sequences, FiniteSets, TLC

VARIABLES
    files,            \* the served project: file name -> contents or NoFile
    edits,            \* number of content changes made so far
    currentRunner,    \* the runner the host holds (playground.js)
    initialized,      \* backend -> the module-level `initialized` flag
    engineLoads,      \* backend -> number of engine loads started
    initCalls,        \* sequence of initialize() invocations
    fileCache,        \* backend -> this.fileCache (ordered map)
    transformedFiles, \* SwcRunner.transformedFiles (ordered map)
    calls,            \* sequence of compile / compileAndRun invocations
    root,             \* the host's #root element content
    frame,            \* the iframe document running the swc harness
    applied,          \* a pure function of the runners applied to arguments
    page              \* the host page: status indicator, timers, handlers

vars == <<files, edits, currentRunner, initialized, engineLoads, initCalls, fileCache,
          transformedFiles, calls, root, frame, applied, page>>

(***************************************************************************)
(* Bounds                                                                  *)
(***************************************************************************)
MaxCompiles == 2
MaxEdits == 1
MaxInitCalls == 3
MaxStack == 4
MaxInputs == 3
MaxTime == 1100
MaxChanges == 1

(***************************************************************************)
(* String helpers (JavaScript String.prototype semantics)                  *)
(***************************************************************************)
StartsWith(s, p) == Len(s) >= Len(p) /\ SubSeq(s, 1, Len(p)) = p

EndsWith(s, p) == Len(s) >= Len(p) /\ SubSeq(s, Len(s) - Len(p) + 1, Len(s)) = p

\* s.slice(n)
Slice(s, n) == IF n >= Len(s) THEN "" ELSE SubSeq(s, n + 1, Len(s))

\* s.indexOf(p): 0-based position of the first occurrence, -1 when absent
IndexOf(s, p) ==
    LET hits == {i \in 0..(Len(s) - Len(p)) : SubSeq(s, i + 1, i + Len(p)) = p}
    IN  IF hits = {} THEN -1 ELSE CHOOSE i \in hits : \A j \in hits : i <= j

\* s.lastIndexOf(p)
LastIndexOf(s, p) ==
    LET hits == {i \in 0..(Len(s) - Len(p)) : SubSeq(s, i + 1, i + Len(p)) = p}
    IN  IF hits = {} THEN -1 ELSE CHOOSE i \in hits : \A j \in hits : i >= j

\* s.includes(p)
Includes(s, p) == IndexOf(s, p) >= 0

\* s.replace(p, r) with a string pattern: the first occurrence only
ReplaceFirst(s, p, r) ==
    LET i == IndexOf(s, p)
    IN  IF i < 0 THEN s
        ELSE (IF i = 0 THEN "" ELSE SubSeq(s, 1, i)) \o r \o Slice(s, i + Len(p))

\* s.substring(0, n)
Substring0(s, n) == IF n <= 0 THEN "" ELSE SubSeq(s, 1, n)

\* The value of a singleton set.  Operators below bind their intermediate
\* results as {body : x \in {e}} so that each is computed once.
The(S) == CHOOSE x \in S : TRUE

\* s.split("/")
RECURSIVE SplitSlash(_)
SplitSlash(str) ==
    The({ IF i < 0 THEN <<s>>
          ELSE <<Substring0(s, i)>> \o SplitSlash(Slice(s, i + 1))
          : <<s, i>> \in {<<str, IndexOf(str, "/")>>} })

\* parts.join("/")
RECURSIVE JoinSlash(_)
JoinSlash(list) ==
    The({ IF parts = <<>> THEN ""
          ELSE IF Len(parts) = 1 THEN parts[1]
          ELSE parts[1] \o "/" \o JoinSlash(Tail(parts))
          : parts \in {list} })

\* [...new Set(seq)]: first occurrences, in order
RECURSIVE Dedup(_)
Dedup(list) ==
    The({ IF seq = <<>> THEN <<>>
          ELSE The({ IF \E i \in 1..Len(init) : init[i] = seq[Len(seq)] THEN init
                     ELSE Append(init, seq[Len(seq)])
                     : init \in {Dedup(SubSeq(seq, 1, Len(seq) - 1))} })
          : seq \in {list} })

Range(seq) == {seq[i] : i \in 1..Len(seq)}

(***************************************************************************)
(* The served project (the SourceProvider's view of the world)             *)
(***************************************************************************)
NoFile == [absent |-> TRUE]

FileNames == {"/src/entry.tsx", "/src/a.js", "/src/b.js"}

\* File contents: the specifiers of its `from` clauses in textual order,
\* whether the text is syntactically invalid, and a revision marker that
\* changes whenever the text changes.
Content(imports, bad) == [ver |-> 0, imports |-> imports, bad |-> bad]

\* entry -> a -> b through alias imports, plus an external package
ChainProject ==
    [f \in FileNames |->
        CASE f = "/src/entry.tsx" -> Content(<<"react", "@/a">>, FALSE)
          [] f = "/src/a.js"      -> Content(<<"@/b">>, FALSE)
          [] f = "/src/b.js"      -> Content(<<>>, FALSE)]

\* entry imports a, a imports entry
CyclicProject ==
    [f \in FileNames |->
        CASE f = "/src/entry.tsx" -> Content(<<"@/a">>, FALSE)
          [] f = "/src/a.js"      -> Content(<<"@/entry">>, FALSE)
          [] f = "/src/b.js"      -> NoFile]

\* entry imports a file that does not exist
MissingDepProject ==
    [f \in FileNames |->
        CASE f = "/src/entry.tsx" -> Content(<<"@/a", "@/gone">>, FALSE)
          [] f = "/src/a.js"      -> Content(<<>>, FALSE)
          [] f = "/src/b.js"      -> NoFile]

\* entry imports a file the engine cannot parse; a relative import below it
BadDepProject ==
    [f \in FileNames |->
        CASE f = "/src/entry.tsx" -> Content(<<"@/b", "@/a">>, FALSE)
          [] f = "/src/a.js"      -> Content(<<>>, TRUE)
          [] f = "/src/b.js"      -> Content(<<"./a">>, FALSE)]

\* the entry file does not exist
NoEntryProject ==
    [f \in FileNames |->
        CASE f = "/src/entry.tsx" -> NoFile
          [] f = "/src/a.js"      -> Content(<<>>, FALSE)
          [] f = "/src/b.js"      -> NoFile]

\* the engine cannot parse the entry file
BadEntryProject ==
    [f \in FileNames |->
        CASE f = "/src/entry.tsx" -> Content(<<"@/a">>, TRUE)
          [] f = "/src/a.js"      -> Content(<<>>, FALSE)
          [] f = "/src/b.js"      -> NoFile]

\* entry names one file by two specifiers, with and without its extension
TwoSpecifiersProject ==
    [f \in FileNames |->
        CASE f = "/src/entry.tsx" -> Content(<<"react", "@/a", "@/a.js">>, FALSE)
          [] f = "/src/a.js"      -> Content(<<>>, FALSE)
          [] f = "/src/b.js"      -> NoFile]

\* entry imports one alias module twice, next to bare and relative imports
MixedImportsProject ==
    [f \in FileNames |->
        CASE f = "/src/entry.tsx" ->
                 Content(<<"react", "@/a", "./b", "@/a", "lodash">>, FALSE)
          [] f = "/src/a.js"      -> Content(<<>>, FALSE)
          [] f = "/src/b.js"      -> Content(<<>>, FALSE)]

\* the entry file alone, importing an external package
SingleFileProject ==
    [f \in FileNames |->
        CASE f = "/src/entry.tsx" -> Content(<<"react">>, FALSE)
          [] f = "/src/a.js"      -> NoFile
          [] f = "/src/b.js"      -> NoFile]

Projects == {ChainProject, CyclicProject, MissingDepProject, BadDepProject,
             NoEntryProject, BadEntryProject, TwoSpecifiersProject,
             MixedImportsProject}

\* the host compiles "@/entry", which is also the default of compile()
EntryPoints == {"@/entry"}

BaseUrl == "/src"

Backends == {"swc", "esbuild"}

(***************************************************************************)
(* SourceProvider: fetchSourceFile(modulePath, baseUrl)                    *)
(***************************************************************************)
\* the ordered candidate extensions of the extension inference
Candidates == <<".tsx", ".ts", ".jsx", ".js">>

HasExtension(path) == \E i \in 1..Len(Candidates) : EndsWith(path, Candidates[i])

\* loader (source kind) inferred from the extension of the file served
LoaderOf(file) ==
    LET i == CHOOSE j \in 1..Len(Candidates) : EndsWith(file, Candidates[j])
    IN  Slice(Candidates[i], 1)

\* the physical file a module path denotes under baseUrl, "" when none exists
PhysicalFile(modulePath, baseUrl, fs) ==
    LET rel  == IF StartsWith(modulePath, "@/") THEN Slice(modulePath, 2) ELSE modulePath
        base == baseUrl \o "/" \o rel
        exists(f) == f \in DOMAIN fs /\ fs[f] /= NoFile
        found == {i \in 1..Len(Candidates) : exists(base \o Candidates[i])}
    IN  IF HasExtension(base)
        THEN (IF exists(base) THEN base ELSE "")
        ELSE IF found = {} THEN ""
        ELSE base \o Candidates[CHOOSE i \in found : \A j \in found : i <= j]

NotFoundMessage(modulePath) == "Not found: " \o modulePath

\* the settled fetch: either the file data or a NotFound error
fetchSourceFile(modulePath, baseUrl, fs) ==
    The({ IF file = ""
          THEN [ok |-> FALSE, message |-> NotFoundMessage(modulePath)]
          ELSE [ok |-> TRUE, contents |-> fs[file], loader |-> LoaderOf(file)]
          : file \in {PhysicalFile(modulePath, baseUrl, fs)} })

(***************************************************************************)
(* Ordered maps (JavaScript Map): a sequence of [key, value] entries       *)
(***************************************************************************)
MapHas(m, k) == \E i \in 1..Len(m) : m[i].key = k

MapGet(m, k) == m[CHOOSE i \in 1..Len(m) : m[i].key = k].value

\* Map.set: an existing key keeps its position
MapSet(m, k, v) ==
    IF MapHas(m, k)
    THEN [i \in 1..Len(m) |-> IF m[i].key = k THEN [key |-> k, value |-> v] ELSE m[i]]
    ELSE Append(m, [key |-> k, value |-> v])

MapKeys(m) == {m[i].key : i \in 1..Len(m)}

createFileCache == <<>>

(***************************************************************************)
(* SwcRunner: pure parts                                                   *)
(***************************************************************************)
TransformErrorMessage(filePath) == "Syntax error in " \o filePath

\* swc.transformSync succeeds exactly on syntactically valid text
transformOk(contents) == ~contents.bad

\* result.code: module syntax is kept (module type es6), the text follows
\* the revision it was produced from
transformFile(contents, filePath) ==
    [ver |-> contents.ver, imports |-> contents.imports]

\* as extractImports, returning the matches without [...new Set(imports)]
extractImports_All(code) ==
    SelectSeq(code.imports, LAMBDA sp : StartsWith(sp, "@/") /\ Len(sp) > 2)

\* /from\s+["'](@\/[^"']+)["']/g, then [...new Set(imports)]
extractImports(code) ==
    Dedup(SelectSeq(code.imports,
                    LAMBDA sp : StartsWith(sp, "@/") /\ Len(sp) > 2))

\* the ".js" default: appended unless the path ends with .js or .jsx
AppendJs(path) ==
    IF ~EndsWith(path, ".js") /\ ~EndsWith(path, ".jsx") THEN path \o ".js" ELSE path

\* the path an import of importPath is rewritten to require
RequireTarget(importPath) ==
    IF StartsWith(importPath, "@/")
    THEN AppendJs("/src/" \o Slice(importPath, 2))
    ELSE importPath

\* import statements become require() calls on their targets
resolveImports(code, filePath) ==
    [ver |-> code.ver,
     requires |-> [i \in 1..Len(code.imports) |-> RequireTarget(code.imports[i])]]

(***************************************************************************)
(* resolveImports statement by statement, and what the rewritten           *)
(* statements bind when the harness runs them                              *)
(***************************************************************************)
\* values of the running program: primitive values, objects, undefined
Undefined == [tag |-> "undefined"]

Value(id) == [tag |-> "value", id |-> id]

ObjectOf(fields) == [tag |-> "object", fields |-> fields]

\* o.name
GetProp(o, name) ==
    IF o.tag = "object" /\ name \in DOMAIN o.fields THEN o.fields[name] ELSE Undefined

\* names.replace(/\s+as\s+/g, ": "): `B as C` becomes the pattern `B: C`
ConvertedNames(names) ==
    [i \in 1..Len(names) |-> [prop |-> names[i].imported, var |-> names[i].local]]

\* the statements the four import patterns put in place of import statement
\* st = [form, defaultName, names, path]
RewriteImport(st) ==
    CASE st.form = "combined" ->
           <<[op |-> "const-require", var |-> st.defaultName,
              path |-> RequireTarget(st.path)],
             [op |-> "const-pattern", pattern |-> ConvertedNames(st.names),
              from |-> st.defaultName]>>
      [] st.form = "named" ->
           <<[op |-> "pattern-require", pattern |-> ConvertedNames(st.names),
              path |-> RequireTarget(st.path)]>>
      [] st.form = "default" ->
           <<[op |-> "const-require", var |-> st.defaultName,
              path |-> RequireTarget(st.path)]>>
      [] st.form = "side-effect" ->
           <<[op |-> "require", path |-> st.path]>>

\* the assignment an export statement st = [kind, name, value] becomes
RewriteExport(st) ==
    IF st.kind = "default" THEN [slot |-> "default", value |-> st.value]
    ELSE [slot |-> st.name, value |-> st.value]

\* module.exports after the factory made of the rewritten export
\* statements has run
RECURSIVE ExportsAfter(_, _)
ExportsAfter(stmts, fields) ==
    IF stmts = <<>> THEN ObjectOf(fields)
    ELSE LET a == RewriteExport(Head(stmts))
         IN  ExportsAfter(Tail(stmts),
                          [x \in DOMAIN fields \cup {a.slot} |->
                              IF x = a.slot THEN a.value ELSE fields[x]])

\* const { p: v, ... } = o
RECURSIVE Destructure(_, _, _)
Destructure(pattern, o, env) ==
    IF pattern = <<>> THEN env
    ELSE Destructure(Tail(pattern), o,
                     [x \in DOMAIN env \cup {Head(pattern).var} |->
                         IF x = Head(pattern).var THEN GetProp(o, Head(pattern).prop)
                         ELSE env[x]])

\* the variables bound by running rewritten import statements, require(key)
\* returning `exports`
RECURSIVE Bindings(_, _, _, _)
Bindings(stmts, env, key, exports) ==
    IF stmts = <<>> THEN env
    ELSE LET st == Head(stmts)
             required == IF st.op = "const-pattern" THEN Undefined
                         ELSE IF st.path = key THEN exports ELSE Undefined
             next ==
                 CASE st.op = "const-require" ->
                        [x \in DOMAIN env \cup {st.var} |->
                            IF x = st.var THEN required ELSE env[x]]
                   [] st.op = "const-pattern" ->
                        Destructure(st.pattern, env[st.from], env)
                   [] st.op = "pattern-require" ->
                        Destructure(st.pattern, required, env)
                   [] st.op = "require" -> env
         IN  Bindings(Tail(stmts), next, key, exports)

\* entryPathResolved
EntryPathResolved(entryPoint) ==
    AppendJs("/src/" \o ReplaceFirst(entryPoint, "@/", ""))

\* as ModuleMapKey, with the Map key used as it is
ModuleMapKey_Raw(path) == path

\* resolvedPath: the moduleMap key of a transformedFiles key
ModuleMapKey(path) ==
    AppendJs("/src/" \o ReplaceFirst(path, "@/", ""))

\* moduleMap after the loop over transformedFiles.entries(); later entries
\* overwrite earlier ones that share a key
RECURSIVE AddTransformed(_, _)
AddTransformed(moduleMap, tf) ==
    The({ IF entries = <<>> THEN map
          ELSE The({ AddTransformed([x \in DOMAIN map \cup {k} |->
                                        IF x = k THEN v ELSE map[x]],
                                    Tail(entries))
                     : <<k, v>> \in {<<ModuleMapKey(entries[1].key),
                                        resolveImports(entries[1].value,
                                                       entries[1].key)>>} })
          : <<map, entries>> \in {<<moduleMap, tf>>} })

\* the value compile() resolves with
SwcBuildResult(entryCode, entryPoint, tf) ==
    LET transformed == resolveImports(entryCode, entryPoint)
        entryPathResolved == EntryPathResolved(entryPoint)
        first == [x \in {entryPathResolved} |-> transformed]
    IN  [code |-> transformed,
         moduleMap |-> AddTransformed(first, tf),
         entryPoint |-> entryPathResolved]

\* as SkipCached, without the look into transformedFiles
SkipCached_Never(todo, tf) == todo

\* the imports a dependency walk still has to load: cached ones are
\* returned by loadAndTransformFile without a fetch
RECURSIVE SkipCached(_, _)
SkipCached(todo, tf) ==
    The({ IF list = <<>> THEN <<>>
          ELSE IF MapHas(map, Head(list)) THEN SkipCached(Tail(list), map)
          ELSE list
          : <<list, map>> \in {<<todo, tf>>} })

(***************************************************************************)
(* Sandbox hand-off (both runners' compileAndRun)                          *)
(***************************************************************************)
ExternalPackages == <<"react", "react/jsx-runtime", "react-dom", "react-dom/client">>

\* as SwcIframe, with same-origin access granted as well
SwcIframe_SameOrigin(script) ==
    [kind |-> "iframe", backend |-> "swc",
     sandbox |-> {"allow-scripts", "allow-popups", "allow-forms", "allow-same-origin"},
     script |-> script]

\* the iframe SwcRunner.compileAndRun creates: iframe.sandbox.add(...) x 3
SwcIframe(script) ==
    [kind |-> "iframe", backend |-> "swc",
     sandbox |-> {"allow-scripts", "allow-popups", "allow-forms"},
     script |-> script]

\* the iframe EsbuildRunner.compileAndRun creates
EsIframe(script) ==
    [kind |-> "iframe", backend |-> "esbuild",
     sandbox |-> {"allow-scripts", "allow-popups", "allow-forms"},
     script |-> script]

EmptyRoot == [kind |-> "initial"]

\* div.textContent = text; div.innerHTML: the markup characters of the
\* text become character references
EscapeChar(ch) ==
    CASE ch = "&" -> "&amp;"
      [] ch = "<" -> "&lt;"
      [] ch = ">" -> "&gt;"
      [] OTHER    -> ch

\* the characters lo..hi of text, escaped
RECURSIVE EscapeRange(_, _, _)
EscapeRange(text, lo, hi) ==
    IF lo > hi THEN ""
    ELSE IF lo = hi THEN EscapeChar(SubSeq(text, lo, lo))
    ELSE EscapeRange(text, lo, (lo + hi) \div 2)
             \o EscapeRange(text, (lo + hi) \div 2 + 1, hi)

escapeHtml(text) == The({ EscapeRange(t, 1, Len(t)) : t \in {text} })

\* the error panel compileApplication writes into #root
ErrorPanel(message) == [kind |-> "error", message |-> escapeHtml(message)]

(***************************************************************************)
(* Invocations of compileAndRun (compile is its first half)                *)
(***************************************************************************)
NoCode == [ver |-> -1, imports |-> <<>>]

NoResult == [code |-> NoCode]

\* an invocation that has just been entered
NewCall(backend, entryPoint, clearCache) ==
    [backend     |-> backend,
     entryPoint  |-> entryPoint,
     clearCache  |-> clearCache,
     pc          |-> "start",      \* start, fetch, resolved, rejected
     compiled    |-> "pending",    \* settlement of the inner compile()
     phase       |-> "entry",      \* what the pending fetch is for
     cur         |-> "",           \* module path of the pending fetch
     todo        |-> <<>>,         \* module paths still to be loaded
     requested   |-> {},           \* module paths asked of the loader
     fetched     |-> {},           \* module paths fetched from SourceProvider
     failed      |-> {},           \* module paths whose load threw
     entryCode   |-> NoCode,       \* swc: transformed entry
     loaded      |-> {},           \* esbuild: [path, code] taken into the bundle
     errors      |-> <<>>,         \* esbuild: diagnostics collected
     result      |-> NoResult,
     error       |-> "",
     ready       |-> initialized[backend],
     host        |-> FALSE,        \* called by the host's compileApplication
     startEdits  |-> edits,
     overlapped  |-> \E i \in 1..Len(calls) :
                        calls[i].backend = backend /\ calls[i].pc = "fetch"]

InFlight(c) == c.pc = "fetch"

Settled(c) == c.pc \in {"resolved", "rejected"}

\* the invocation table after a new invocation c entered
Entered(c) ==
    Append([i \in 1..Len(calls) |->
               IF calls[i].backend = c.backend /\ InFlight(calls[i])
               THEN [calls[i] EXCEPT !.overlapped = TRUE]
               ELSE calls[i]],
           c)

Reject(c, message) ==
    [c EXCEPT !.pc = "rejected", !.compiled = "rejected", !.error = message]

\* compile() resolved; the rest of compileAndRun runs without suspension
Resolve(c, result) ==
    [c EXCEPT !.pc = "resolved", !.compiled = "resolved", !.result = result]

(***************************************************************************)
(* The status indicator of the host page (playground.js)                   *)
(***************************************************************************)
\* setPreviewStatus(message, type); the check mark and the cross in front
\* of the messages are written "v" and "x"
PreviewStatus(message, type) == [message |-> message, type |-> type]

\* compileApplication up to `await currentRunner.compileAndRun(...)`
StatusEntered(c, pg) ==
    IF c.host THEN [pg EXCEPT !.previewStatus = PreviewStatus("Compiling...", "loading")]
    ELSE pg

\* as StatusSettled, with the catch block leaving the indicator alone
StatusSettled_SuccessOnly(c, pg) ==
    IF c.host /\ c.pc = "resolved"
    THEN [pg EXCEPT !.previewStatus = PreviewStatus("v Success", "success")]
    ELSE pg

\* compileApplication after the await: the line after it, or the catch block
StatusSettled(c, pg) ==
    IF c.host /\ c.pc = "resolved"
    THEN [pg EXCEPT !.previewStatus = PreviewStatus("v Success", "success")]
    ELSE IF c.host /\ c.pc = "rejected"
    THEN [pg EXCEPT !.previewStatus = PreviewStatus("x Error", "error")]
    ELSE pg

(***************************************************************************)
(* SwcRunner.compile / compileAndRun                                       *)
(***************************************************************************)
SwcInitError == "SwcRunner not initialized. Call initialize() first."

\* the script SwcRunner.compileAndRun puts into the iframe
SwcScript(result) ==
    [kind |-> "swc", moduleMap |-> result.moduleMap, entryKey |-> result.entryPoint]

\* as SwcRendered, with a host catch block that leaves #root alone
SwcRendered_NoPanel(c) ==
    IF c.pc = "resolved" THEN SwcIframe(SwcScript(c.result)) ELSE root

\* #root after an invocation reached state c: cleared and given the iframe
\* once compile has resolved, untouched by the runner otherwise; the catch
\* block of compileApplication puts the error panel there
SwcRendered(c) ==
    IF c.pc = "resolved" THEN SwcIframe(SwcScript(c.result))
    ELSE IF c.pc = "rejected" /\ c.host THEN ErrorPanel(c.error)
    ELSE root

\* transformDependencies from the point where `todo` is left to load: cached
\* imports are passed over, the first uncached one suspends on its fetch,
\* and with nothing left compile assembles the module map and resolves
SwcWalk(c, tf) ==
    The({ The({ IF rest = <<>>
                THEN Resolve([c EXCEPT !.todo = <<>>, !.cur = "",
                                       !.requested = @ \cup skipped],
                             SwcBuildResult(c.entryCode, c.entryPoint, tf))
                ELSE [c EXCEPT !.pc = "fetch", !.phase = "dep", !.cur = Head(rest),
                               !.todo = Tail(rest),
                               !.requested = @ \cup skipped \cup {Head(rest)},
                               !.fetched = @ \cup {Head(rest)}]
                : skipped \in {{c.todo[i] : i \in 1..(Len(c.todo) - Len(rest))}} })
          : rest \in {SkipCached(c.todo, tf)} })

\* as DependencyLoadFailed, without the try/catch around the load
DependencyLoadFailed_Rethrown(c, tf, message) == Reject(c, message)

\* the catch block of transformDependencies: warn and go on with the next
DependencyLoadFailed(c, tf, message) == SwcWalk(c, tf)

\* a throw of loadAndTransformFile(entryPoint) leaves compile through its
\* catch block, which rethrows
EntryLoadFailed(c, message) == Reject(c, message)

\* as SwcEnter, without the `if (!initialized) throw` check
SwcEnter_Unchecked(c, tf) ==
    IF MapHas(tf, c.entryPoint)
    THEN SwcWalk([c EXCEPT !.requested = {c.entryPoint},
                           !.entryCode = MapGet(tf, c.entryPoint),
                           !.todo = extractImports(MapGet(tf, c.entryPoint))],
                 tf)
    ELSE [c EXCEPT !.pc = "fetch", !.phase = "entry", !.cur = c.entryPoint,
                   !.requested = {c.entryPoint}, !.fetched = {c.entryPoint}]

\* compile() up to its first suspension
SwcEnter(c, tf) ==
    IF ~c.ready THEN Reject(c, SwcInitError)
    ELSE IF MapHas(tf, c.entryPoint)
    THEN SwcWalk([c EXCEPT !.requested = {c.entryPoint},
                           !.entryCode = MapGet(tf, c.entryPoint),
                           !.todo = extractImports(MapGet(tf, c.entryPoint))],
                 tf)
    ELSE [c EXCEPT !.pc = "fetch", !.phase = "entry", !.cur = c.entryPoint,
                   !.requested = {c.entryPoint}, !.fetched = {c.entryPoint}]

\* if (clearCache) { this.fileCache.clear(); this.transformedFiles.clear(); }
SwcClearedFiles(clear, fc) == IF clear THEN <<>> ELSE fc

\* as SwcClearedTransformed, with transformedFiles.clear() forgotten
SwcClearedTransformed_Kept(clear, tf) == tf

SwcClearedTransformed(clear, tf) == IF clear THEN <<>> ELSE tf

\* compileAndRun(options) is entered as invocation `call` and runs to its
\* first suspension
SwcInvokeFrom(call, pg) ==
    /\ currentRunner = "swc"
    /\ Len(calls) < MaxCompiles
    /\ \E c0 \in {call} :
       \E tf \in {SwcClearedTransformed(c0.ready /\ c0.clearCache, transformedFiles)} :
       \E fc \in {SwcClearedFiles(c0.ready /\ c0.clearCache, fileCache["swc"])} :
       \E c \in {SwcEnter(c0, tf)} :
           /\ transformedFiles' = tf
           /\ fileCache' = [fileCache EXCEPT !["swc"] = fc]
           /\ calls' = Entered(c)
           /\ root' = SwcRendered(c)
           /\ page' = StatusSettled(c, StatusEntered(c, pg))
    /\ UNCHANGED <<applied, files, edits, currentRunner, initialized, engineLoads,
                   initCalls, frame>>

\* the invocation made while the page is in state `page`
SwcInvoke(call) == SwcInvokeFrom(call, page)

SwcCompileAndRun(entryPoint, clearCache) ==
    SwcInvoke(NewCall("swc", entryPoint, clearCache))

\* the pending fetch of invocation k settles and loadAndTransformFile,
\* transformDependencies and compile run on to the next suspension
SwcFetchSettles(k) ==
    /\ k \in 1..Len(calls)
    /\ calls[k].backend = "swc"
    /\ InFlight(calls[k])
    /\ \E c \in {calls[k]} :
       \E data \in {fetchSourceFile(c.cur, BaseUrl, files)} :
       \E ok \in {data.ok /\ transformOk(data.contents)} :
       \E code \in {IF ok THEN transformFile(data.contents, c.cur) ELSE NoCode} :
       \E tf \in {IF ok THEN MapSet(transformedFiles, c.cur, code)
                  ELSE transformedFiles} :
       \E fc \in {IF ok
                  THEN MapSet(fileCache["swc"], c.cur,
                              [contents |-> data.contents, loader |-> data.loader,
                               transformed |-> code])
                  ELSE fileCache["swc"]} :
       \E msg \in {IF data.ok THEN TransformErrorMessage(c.cur) ELSE data.message} :
       \E c1 \in {IF ok THEN c ELSE [c EXCEPT !.failed = @ \cup {c.cur}]} :
       \E c2 \in {CASE c.phase = "entry" /\ ok ->
                            SwcWalk([c1 EXCEPT !.entryCode = code,
                                               !.todo = extractImports(code)], tf)
                    [] c.phase = "entry" /\ ~ok -> EntryLoadFailed(c1, msg)
                    [] c.phase = "dep" /\ ok    -> SwcWalk(c1, tf)
                    [] c.phase = "dep" /\ ~ok   -> DependencyLoadFailed(c1, tf, msg)} :
           /\ transformedFiles' = tf
           /\ fileCache' = [fileCache EXCEPT !["swc"] = fc]
           /\ calls' = [calls EXCEPT ![k] = c2]
           /\ root' = SwcRendered(c2)
           /\ page' = StatusSettled(c2, page)
    /\ UNCHANGED <<applied, files, edits, currentRunner, initialized, engineLoads, initCalls, frame>>

(***************************************************************************)
(* EsbuildRunner: resolve hook, load hook, compile / compileAndRun         *)
(***************************************************************************)
EsInitError == "EsbuildRunner not initialized. Call initialize() first."

isExternal(path) ==
    \E i \in 1..Len(ExternalPackages) :
        path = ExternalPackages[i] \/ StartsWith(path, ExternalPackages[i] \o "/")

\* the loop of normalizePath over path.split("/")
RECURSIVE NormalizeParts(_, _)
NormalizeParts(parts, result) ==
    The({ IF todo = <<>> THEN acc
          ELSE IF Head(todo) = ".."
          THEN NormalizeParts(Tail(todo),
                              IF acc = <<>> THEN <<>>
                              ELSE SubSeq(acc, 1, Len(acc) - 1))
          ELSE IF Head(todo) /= "." /\ Head(todo) /= ""
          THEN NormalizeParts(Tail(todo), Append(acc, Head(todo)))
          ELSE NormalizeParts(Tail(todo), acc)
          : <<todo, acc>> \in {<<parts, result>>} })

normalizePath(path) ==
    LET joined == JoinSlash(NormalizeParts(SplitSlash(path), <<>>))
    IN  IF StartsWith(path, "@/")
        THEN "@/" \o (IF StartsWith(joined, "@/") THEN Slice(joined, 2) ELSE joined)
        ELSE "/" \o joined

\* as onResolve, with the test for bare specifiers ahead of the alias test
onResolve_BareFirst(path, namespace, importer) ==
    IF isExternal(path) THEN [kind |-> "external", path |-> path]
    ELSE IF ~StartsWith(path, "/") /\ ~StartsWith(path, ".")
    THEN [kind |-> "external", path |-> path]
    ELSE IF StartsWith(path, "@/") THEN [kind |-> "virtual", path |-> path]
    ELSE IF namespace = "virtual" /\ (StartsWith(path, "./") \/ StartsWith(path, "../"))
    THEN LET importerDir == Substring0(importer, LastIndexOf(importer, "/"))
         IN  [kind |-> "virtual", path |-> normalizePath(importerDir \o "/" \o path)]
    ELSE [kind |-> "null", path |-> path]

\* build.onResolve
onResolve(path, namespace, importer) ==
    IF isExternal(path) THEN [kind |-> "external", path |-> path]
    ELSE IF StartsWith(path, "@/") THEN [kind |-> "virtual", path |-> path]
    ELSE IF namespace = "virtual" /\ (StartsWith(path, "./") \/ StartsWith(path, "../"))
    THEN LET importerDir == Substring0(importer, LastIndexOf(importer, "/"))
         IN  [kind |-> "virtual", path |-> normalizePath(importerDir \o "/" \o path)]
    ELSE IF ~StartsWith(path, "/") /\ ~StartsWith(path, ".")
    THEN [kind |-> "external", path |-> path]
    ELSE [kind |-> "null", path |-> path]

UnresolvedMessage(path) == "Could not resolve " \o path

\* result.errors.map((e) => e.text).join("\n")
RECURSIVE JoinLines(_)
JoinLines(texts) ==
    The({ IF list = <<>> THEN ""
          ELSE IF Len(list) = 1 THEN list[1]
          ELSE list[1] \o "\n" \o JoinLines(Tail(list))
          : list \in {texts} })

\* the engine resolves the imports of a module it has parsed: virtual paths
\* it has not met yet are queued for the load hook
RECURSIVE EsResolveAll(_, _, _)
EsResolveAll(c, imports, importer) ==
    The({ IF list = <<>> THEN call
          ELSE The({ EsResolveAll(
                        CASE r.kind = "virtual"
                               /\ r.path \notin call.requested \cup Range(call.todo) ->
                                 [call EXCEPT !.todo = Append(@, r.path)]
                          [] r.kind = "null" ->
                                 [call EXCEPT !.errors =
                                                Append(@, UnresolvedMessage(r.path))]
                          [] OTHER -> call,
                        Tail(list), importer)
                     : r \in {onResolve(Head(list), "virtual", importer)} })
          : <<call, list>> \in {<<c, imports>>} })

\* the engine takes the contents the load hook returned for path
EsTake(c, path, contents) ==
    IF ~transformOk(contents)
    THEN [c EXCEPT !.errors = Append(@, TransformErrorMessage(path))]
    ELSE EsResolveAll([c EXCEPT !.loaded = @ \cup {[path |-> path, ver |-> contents.ver]}],
                      contents.imports, path)

\* as LoadFailed, with the failure swallowed
LoadFailed_Swallowed(c, message) == [c EXCEPT !.failed = @ \cup {c.cur}]

\* the catch block of the load hook: a diagnostic instead of a throw
LoadFailed(c, message) ==
    [c EXCEPT !.failed = @ \cup {c.cur}, !.errors = Append(@, message)]

\* the script EsbuildRunner.compileAndRun puts into the iframe
EsScript(result) == [kind |-> "esbuild", code |-> result.code]

\* as EsRendered, with #root emptied before compile is awaited
EsRendered_ClearedFirst(c) ==
    IF c.pc = "resolved" THEN EsIframe(EsScript(c.result))
    ELSE IF c.pc = "rejected" /\ c.host THEN ErrorPanel(c.error)
    ELSE [kind |-> "empty"]

EsRendered(c) ==
    IF c.pc = "resolved" THEN EsIframe(EsScript(c.result))
    ELSE IF c.pc = "rejected" /\ c.host THEN ErrorPanel(c.error)
    ELSE root

\* as fileCacheHas, with the cache never consulted by the load hook
fileCacheHas_Never(fc, modulePath) == FALSE

\* the load hook's check: this.fileCache.has(modulePath)
fileCacheHas(fc, modulePath) == MapHas(fc, modulePath)

\* esbuild.build from the point where `todo` is left to load: a cache hit of
\* the load hook is taken at once, a miss suspends on the fetch, and with
\* nothing left the build settles and compile checks result.errors
RECURSIVE EsWalk(_, _)
EsWalk(c, fc) ==
    The({ IF call.todo = <<>>
          THEN IF call.errors /= <<>>
               THEN Reject([call EXCEPT !.cur = ""], JoinLines(call.errors))
               ELSE Resolve([call EXCEPT !.cur = ""], [code |-> call.loaded])
          ELSE The({ IF fileCacheHas(fc, path)
                     THEN EsWalk(EsTake(c1, path, MapGet(fc, path).contents), fc)
                     ELSE [c1 EXCEPT !.pc = "fetch", !.phase = "load", !.cur = path,
                                     !.fetched = @ \cup {path}]
                     : <<path, c1>> \in
                         {<<Head(call.todo),
                            [call EXCEPT !.todo = Tail(@),
                                         !.requested = @ \cup {Head(call.todo)}]>>} })
          : call \in {c} })

\* compile() up to its first suspension
EsEnter(c, fc) ==
    IF ~c.ready THEN Reject(c, EsInitError)
    ELSE LET r == onResolve(c.entryPoint, "", "")
         IN  IF r.kind = "virtual"
             THEN EsWalk([c EXCEPT !.todo = <<r.path>>], fc)
             ELSE Reject(c, UnresolvedMessage(c.entryPoint))

\* if (clearCache) { this.fileCache.clear(); }
EsClearedFiles(clear, fc) == IF clear THEN <<>> ELSE fc

EsInvokeFrom(call, pg) ==
    /\ currentRunner = "esbuild"
    /\ Len(calls) < MaxCompiles
    /\ \E c0 \in {call} :
       \E fc \in {EsClearedFiles(c0.ready /\ c0.clearCache, fileCache["esbuild"])} :
       \E c \in {EsEnter(c0, fc)} :
           /\ fileCache' = [fileCache EXCEPT !["esbuild"] = fc]
           /\ calls' = Entered(c)
           /\ root' = EsRendered(c)
           /\ page' = StatusSettled(c, StatusEntered(c, pg))
    /\ UNCHANGED <<applied, files, edits, currentRunner, initialized, engineLoads, initCalls,
                   transformedFiles, frame>>

EsInvoke(call) == EsInvokeFrom(call, page)

EsCompileAndRun(entryPoint, clearCache) ==
    EsInvoke(NewCall("esbuild", entryPoint, clearCache))

\* the pending fetch of the load hook settles for invocation k
EsFetchSettles(k) ==
    /\ k \in 1..Len(calls)
    /\ calls[k].backend = "esbuild"
    /\ InFlight(calls[k])
    /\ \E c \in {calls[k]} :
       \E data \in {fetchSourceFile(c.cur, BaseUrl, files)} :
       \E fc \in {IF data.ok
                  THEN MapSet(fileCache["esbuild"], c.cur,
                              [contents |-> data.contents, loader |-> data.loader])
                  ELSE fileCache["esbuild"]} :
       \E c1 \in {IF data.ok THEN EsTake(c, c.cur, data.contents)
                  ELSE LoadFailed(c, data.message)} :
       \E c2 \in {EsWalk(c1, fc)} :
           /\ fileCache' = [fileCache EXCEPT !["esbuild"] = fc]
           /\ calls' = [calls EXCEPT ![k] = c2]
           /\ root' = EsRendered(c2)
           /\ page' = StatusSettled(c2, page)
    /\ UNCHANGED <<applied, files, edits, currentRunner, initialized, engineLoads, initCalls,
                   transformedFiles, frame>>

(***************************************************************************)
(* The host page (playground.js)                                           *)
(***************************************************************************)
\* the invocation compileApplication makes on the runner the page holds
HostCall ==
    [NewCall(currentRunner, "@/entry", FALSE) EXCEPT !.host = TRUE]

\* compileApplication(), as the theme toggle, the debounce timer and the
\* timer of the compiler switch run it: none of them looks at a compile
\* that is still in flight
CompileApplication ==
    \/ SwcInvoke(HostCall)
    \/ EsInvoke(HostCall)

\* currentRunner = null
NoRunner == "none"

\* compileApplication() entered with the page in state pg
RunCompileApplication(pg) ==
    IF currentRunner = NoRunner
    THEN /\ page' = [pg EXCEPT !.previewStatus = PreviewStatus("Error", "error")]
         /\ UNCHANGED <<applied, files, edits, currentRunner, initialized, engineLoads,
                        initCalls, fileCache, transformedFiles, calls, root, frame>>
    ELSE IF currentRunner = "swc" THEN SwcInvokeFrom(HostCall, pg)
    ELSE EsInvokeFrom(HostCall, pg)

\* setTimeout(..., 500) of the input handler, setTimeout(..., 100) of the
\* change handler
DebounceDelay == 500

SwitchDelay == 100

\* setTimeout(callback, delay) on page state pg
SetTimeout(pg, kind, delay) ==
    [pg EXCEPT !.timers = @ \cup {[id |-> pg.nextTimer, kind |-> kind,
                                   due |-> pg.now + delay]},
               !.nextTimer = @ + 1]

\* clearTimeout(id): no effect when no such timer is pending
ClearTimeout(pg, id) == [pg EXCEPT !.timers = {t \in @ : t.id /= id}]

\* as InputEvent, without the clearTimeout of the pending timer
InputEvent_NoClear ==
    /\ Len(page.inputs) < MaxInputs
    /\ page' = [SetTimeout(page, "debounce", DebounceDelay)
                   EXCEPT !.compileTimeout = page.nextTimer,
                          !.inputs = Append(@, page.now)]
    /\ UNCHANGED <<applied, files, edits, currentRunner, initialized, engineLoads,
                   initCalls, fileCache, transformedFiles, calls, root, frame>>

\* the editor's input event
InputEvent ==
    /\ Len(page.inputs) < MaxInputs
    /\ LET cleared == IF page.compileTimeout /= 0
                      THEN ClearTimeout(page, page.compileTimeout) ELSE page
       IN  page' = [SetTimeout(cleared, "debounce", DebounceDelay)
                      EXCEPT !.compileTimeout = page.nextTimer,
                             !.inputs = Append(@, page.now)]
    /\ UNCHANGED <<applied, files, edits, currentRunner, initialized, engineLoads,
                   initCalls, fileCache, transformedFiles, calls, root, frame>>

\* a timer that is due runs its callback, which calls compileApplication()
TimerFires(id) ==
    \E t \in page.timers :
        /\ t.id = id
        /\ t.due <= page.now
        /\ RunCompileApplication(
              [page EXCEPT !.timers = @ \ {t},
                           !.debounced = IF t.kind = "debounce"
                                         THEN Append(@, page.now) ELSE @])

\* the amounts of time that pass between two events
AdvanceSteps == {100, 400, 500}

\* time passes, up to the moment the next timer is due; time is observed
\* through timers only
Advance(d) ==
    /\ page.timers /= {}
    /\ page.now + d <= MaxTime
    /\ \A t \in page.timers : page.now + d <= t.due
    /\ page' = [page EXCEPT !.now = @ + d]
    /\ UNCHANGED <<applied, files, edits, currentRunner, initialized, engineLoads,
                   initCalls, fileCache, transformedFiles, calls, root, frame>>

(***************************************************************************)
(* The project changes on the server                                       *)
(***************************************************************************)
\* the files that are edited while the page is open
EditableFiles == {"/src/entry.tsx", "/src/a.js"}

EditFile(f) ==
    /\ edits < MaxEdits
    /\ files[f] /= NoFile
    /\ files' = [files EXCEPT ![f].ver = @ + 1]
    /\ edits' = edits + 1
    /\ UNCHANGED <<page, applied, currentRunner, initialized, engineLoads, initCalls, fileCache,
                   transformedFiles, calls, root, frame>>

(***************************************************************************)
(* main() and the handlers of the compiler select and the theme toggle     *)
(***************************************************************************)
InitErrorPanel(message) == [kind |-> "init error", message |-> escapeHtml(message)]

\* the message of the error a failed engine load throws
EngineLoadError(b) == "Failed to load " \o b

\* the record of an initialize() call of backend b that has just been entered
InitCallOf(b) ==
    [backend |-> b, pc |-> IF initialized[b] THEN "returned" ELSE "import",
     late |-> initialized[b]]

\* applyTheme(), from the click handler of the theme toggle
ThemeToggle == RunCompileApplication(page)

\* main() up to `await loadAllFiles()`: initializeTheme() calls applyTheme(),
\* which calls compileApplication() while currentRunner is still null
MainStarts ==
    /\ page.handlers = <<>>
    /\ RunCompileApplication(
          [page EXCEPT !.handlers = <<[kind |-> "main", type |-> "", pc |-> "loading",
                                      init |-> 0]>>])

\* main() from the end of loadAllFiles() to `await createRunner(...)`, with
\* the value of the compiler select
MainLoaded(h, type) ==
    /\ h \in 1..Len(page.handlers)
    /\ page.handlers[h].kind = "main"
    /\ page.handlers[h].pc = "loading"
    /\ page' = [page EXCEPT !.handlers[h].pc = "create", !.handlers[h].type = type]
    /\ UNCHANGED <<applied, files, edits, currentRunner, initialized, engineLoads,
                   initCalls, fileCache, transformedFiles, calls, root, frame>>

\* the change event of the compiler select, up to `await createRunner(...)`
CompilerChange(type) ==
    /\ Cardinality({h \in 1..Len(page.handlers) : page.handlers[h].kind = "change"})
          < MaxChanges
    /\ page' = [page EXCEPT
                   !.previewStatus = PreviewStatus("Switching...", "loading"),
                   !.handlers = Append(@, [kind |-> "change", type |-> type,
                                           pc |-> "create", init |-> 0])]
    /\ UNCHANGED <<applied, files, edits, currentRunner, initialized, engineLoads,
                   initCalls, fileCache, transformedFiles, calls, root, frame>>

\* createRunner(type) settles: the handler stores the runner in
\* currentRunner and calls its initialize(), which runs to its first await
RunnerCreated(h) ==
    /\ h \in 1..Len(page.handlers)
    /\ page.handlers[h].pc = "create"
    /\ Len(initCalls) < MaxInitCalls
    /\ \E b \in {page.handlers[h].type} :
          /\ currentRunner' = b
          /\ initCalls' = Append(initCalls, InitCallOf(b))
          /\ engineLoads' = IF initialized[b] THEN engineLoads
                            ELSE [engineLoads EXCEPT ![b] = @ + 1]
          /\ page' = [page EXCEPT !.handlers[h].pc = "init",
                                  !.handlers[h].init = Len(initCalls) + 1]
    /\ UNCHANGED <<applied, files, edits, initialized, fileCache, transformedFiles,
                   calls, root, frame>>

\* initialize() has returned: main() goes on to `await compileApplication()`,
\* the change handler sets the 100 ms timer
HandlerContinues(h) ==
    /\ h \in 1..Len(page.handlers)
    /\ page.handlers[h].pc = "init"
    /\ initCalls[page.handlers[h].init].pc = "returned"
    /\ IF page.handlers[h].kind = "main"
       THEN RunCompileApplication([page EXCEPT !.handlers[h].pc = "done"])
       ELSE /\ page' = SetTimeout([page EXCEPT !.handlers[h].pc = "done"],
                                  "switch", SwitchDelay)
            /\ UNCHANGED <<applied, files, edits, currentRunner, initialized,
                           engineLoads, initCalls, fileCache, transformedFiles,
                           calls, root, frame>>

\* initialize() has thrown: the catch block of main() or of the change
\* handler
HandlerCatches(h) ==
    /\ h \in 1..Len(page.handlers)
    /\ page.handlers[h].pc = "init"
    /\ initCalls[page.handlers[h].init].pc = "threw"
    /\ IF page.handlers[h].kind = "main"
       THEN /\ page' = [page EXCEPT
                          !.handlers[h].pc = "failed",
                          !.previewStatus = PreviewStatus("x Init Error", "error")]
            /\ root' = InitErrorPanel(EngineLoadError(page.handlers[h].type))
       ELSE /\ page' = [page EXCEPT
                          !.handlers[h].pc = "failed",
                          !.previewStatus = PreviewStatus("x Error", "error")]
            /\ root' = root
    /\ UNCHANGED <<applied, files, edits, currentRunner, initialized, engineLoads,
                   initCalls, fileCache, transformedFiles, calls, frame>>

\* a served file is saved with a syntax error in it
BreakFile(f) ==
    /\ edits < MaxEdits
    /\ files[f] /= NoFile
    /\ ~files[f].bad
    /\ files' = [files EXCEPT ![f].ver = @ + 1, ![f].bad = TRUE]
    /\ edits' = edits + 1
    /\ UNCHANGED <<page, applied, currentRunner, initialized, engineLoads, initCalls, fileCache,
                   transformedFiles, calls, root, frame>>

(***************************************************************************)
(* initialize() of both runners                                            *)
(***************************************************************************)
\* as Initialize, without the `if (initialized) return` guard
Initialize_Unguarded(b) ==
    /\ Len(initCalls) < MaxInitCalls
    /\ initCalls' = Append(initCalls,
                           [backend |-> b, pc |-> "import", late |-> initialized[b]])
    /\ engineLoads' = [engineLoads EXCEPT ![b] = @ + 1]
    /\ UNCHANGED <<page, applied, files, edits, currentRunner, initialized, fileCache,
                   transformedFiles, calls, root, frame>>

\* initialize() is entered: it returns at once when the module-level flag is
\* set, and starts loading the engine otherwise
Initialize(b) ==
    /\ Len(initCalls) < MaxInitCalls
    /\ IF initialized[b]
       THEN /\ initCalls' = Append(initCalls,
                                   [backend |-> b, pc |-> "returned", late |-> TRUE])
            /\ UNCHANGED engineLoads
       ELSE /\ initCalls' = Append(initCalls,
                                   [backend |-> b, pc |-> "import", late |-> FALSE])
            /\ engineLoads' = [engineLoads EXCEPT ![b] = @ + 1]
    /\ UNCHANGED <<page, applied, files, edits, currentRunner, initialized, fileCache, transformedFiles,
                   calls, root, frame>>

\* `await import(url)` settles
ImportSettles(i, ok) ==
    /\ i \in 1..Len(initCalls)
    /\ initCalls[i].pc = "import"
    /\ initCalls' = [initCalls EXCEPT ![i].pc = IF ok THEN "init" ELSE "threw"]
    /\ UNCHANGED <<page, applied, files, edits, currentRunner, initialized, engineLoads, fileCache,
                   transformedFiles, calls, root, frame>>

\* `await initSwc()` / `await esbuild.initialize(...)` settles
EngineInitSettles(i, ok) ==
    /\ i \in 1..Len(initCalls)
    /\ initCalls[i].pc = "init"
    /\ initCalls' = [initCalls EXCEPT ![i].pc = IF ok THEN "returned" ELSE "threw"]
    /\ initialized' = IF ok THEN [initialized EXCEPT ![initCalls[i].backend] = TRUE]
                      ELSE initialized
    /\ UNCHANGED <<page, applied, files, edits, currentRunner, engineLoads, fileCache, transformedFiles,
                   calls, root, frame>>

(***************************************************************************)
(* Specifications                                                          *)
(***************************************************************************)
IdleFrame == [pc |-> "none"]

NotApplied == [fn |-> "none"]

NoFields == [k \in {} |-> k]

\* the page as its script starts: playground.js 19-25
InitialPage ==
    [previewStatus  |-> PreviewStatus("", ""),
     compileTimeout |-> 0,       \* 0 for null, else the id of a timer
     timers         |-> {},      \* pending timers: [id, kind, due]
     nextTimer      |-> 1,       \* the id the next setTimeout returns
     now            |-> 0,       \* milliseconds since the page was loaded
     inputs         |-> <<>>,    \* the times of the editor's input events
     debounced      |-> <<>>,    \* the times the debounce timer ran
     handlers       |-> <<>>]    \* main() and change handlers in progress

\* the page holding one of the runners, whose engine is loaded or not;
\* switching the compiler is outside this specification
Init ==
    /\ files \in Projects
    /\ edits = 0
    /\ currentRunner \in Backends
    /\ initialized \in {[b \in Backends |-> b = currentRunner /\ on] : on \in BOOLEAN}
    /\ engineLoads = [b \in Backends |-> IF initialized[b] THEN 1 ELSE 0]
    /\ initCalls = <<>>
    /\ fileCache = [b \in Backends |-> createFileCache]
    /\ transformedFiles = <<>>
    /\ calls = <<>>
    /\ root = EmptyRoot
    /\ frame = IdleFrame
    /\ applied = NotApplied
    /\ page = InitialPage

Next ==
    \/ \E e \in EntryPoints, cc \in BOOLEAN : SwcCompileAndRun(e, cc)
    \/ \E k \in 1..MaxCompiles : SwcFetchSettles(k)
    \/ \E e \in EntryPoints, cc \in BOOLEAN : EsCompileAndRun(e, cc)
    \/ \E k \in 1..MaxCompiles : EsFetchSettles(k)
    \/ \E f \in EditableFiles : EditFile(f)

Spec == Init /\ [][Next]_vars

\* initialisation alone, from the freshly loaded page
InitBoot ==
    /\ files \in Projects
    /\ edits = 0
    /\ currentRunner \in Backends
    /\ initialized = [b \in Backends |-> FALSE]
    /\ engineLoads = [b \in Backends |-> 0]
    /\ initCalls = <<>>
    /\ fileCache = [b \in Backends |-> createFileCache]
    /\ transformedFiles = <<>>
    /\ calls = <<>>
    /\ root = EmptyRoot
    /\ frame = IdleFrame
    /\ applied = NotApplied
    /\ page = InitialPage

NextBoot ==
    \/ \E b \in Backends : Initialize(b)
    \/ \E i \in 1..MaxInitCalls, ok \in BOOLEAN : ImportSettles(i, ok)
    \/ \E i \in 1..MaxInitCalls, ok \in BOOLEAN : EngineInitSettles(i, ok)

SpecBoot == InitBoot /\ [][NextBoot]_vars

\* SwcRunner alone on the project whose import graph is a cycle; a fetch
\* that has been issued settles, with the file data or with an error
InitCyclic ==
    /\ Init
    /\ files = CyclicProject
    /\ currentRunner = "swc"

NextSwc ==
    \/ \E e \in EntryPoints, cc \in BOOLEAN : SwcCompileAndRun(e, cc)
    \/ \E k \in 1..MaxCompiles : SwcFetchSettles(k)
    \/ \E f \in EditableFiles : EditFile(f)

SpecSwcCyclic ==
    /\ InitCyclic
    /\ [][NextSwc]_vars
    /\ WF_vars(\E k \in 1..MaxCompiles : SwcFetchSettles(k))

\* the page from its load on: initialize() of the runner it holds and
\* compiles in any order, on the project entry -> a -> b
InitLoad ==
    /\ InitBoot
    /\ files = ChainProject

NextLoad ==
    \/ Initialize(currentRunner)
    \/ \E i \in 1..MaxInitCalls, ok \in BOOLEAN : ImportSettles(i, ok)
    \/ \E i \in 1..MaxInitCalls, ok \in BOOLEAN : EngineInitSettles(i, ok)
    \/ \E e \in EntryPoints, cc \in BOOLEAN : SwcCompileAndRun(e, cc)
    \/ \E k \in 1..MaxCompiles : SwcFetchSettles(k)
    \/ \E e \in EntryPoints, cc \in BOOLEAN : EsCompileAndRun(e, cc)
    \/ \E k \in 1..MaxCompiles : EsFetchSettles(k)

SpecLoad == InitLoad /\ [][NextLoad]_vars

\* a runner called directly, as a library, while served files get broken
InitRender ==
    /\ Init
    /\ files \in {ChainProject, MixedImportsProject}
    /\ initialized[currentRunner]

NextRender ==
    \/ \E e \in EntryPoints, cc \in BOOLEAN : SwcCompileAndRun(e, cc)
    \/ \E k \in 1..MaxCompiles : SwcFetchSettles(k)
    \/ \E e \in EntryPoints, cc \in BOOLEAN : EsCompileAndRun(e, cc)
    \/ \E k \in 1..MaxCompiles : EsFetchSettles(k)
    \/ \E f \in EditableFiles : BreakFile(f)

SpecRender == InitRender /\ [][NextRender]_vars

\* the page once main() has set currentRunner: compileApplication runs
\* whenever one of its triggers fires, while the served files may change
NextHost ==
    \/ CompileApplication
    \/ \E k \in 1..MaxCompiles : SwcFetchSettles(k)
    \/ \E k \in 1..MaxCompiles : EsFetchSettles(k)
    \/ \E f \in EditableFiles : EditFile(f)

SpecHost == Init /\ [][NextHost]_vars

\* the editor in use on a page whose runner is ready
InitDebounce ==
    /\ Init
    /\ files = ChainProject
    /\ initialized[currentRunner]

NextDebounce ==
    \/ InputEvent
    \/ \E d \in AdvanceSteps : Advance(d)
    \/ \E id \in 1..MaxInputs : TimerFires(id)
    \/ \E k \in 1..MaxCompiles : SwcFetchSettles(k)
    \/ \E k \in 1..MaxCompiles : EsFetchSettles(k)

SpecDebounce == InitDebounce /\ [][NextDebounce]_vars

\* the page from the moment its script starts
InitPage ==
    /\ files \in {SingleFileProject, NoEntryProject}
    /\ edits = 0
    /\ currentRunner = NoRunner
    /\ initialized = [b \in Backends |-> FALSE]
    /\ engineLoads = [b \in Backends |-> 0]
    /\ initCalls = <<>>
    /\ fileCache = [b \in Backends |-> createFileCache]
    /\ transformedFiles = <<>>
    /\ calls = <<>>
    /\ root = EmptyRoot
    /\ frame = IdleFrame
    /\ applied = NotApplied
    /\ page = InitialPage

NextPage ==
    \/ MainStarts
    \/ \E h \in 1..(MaxChanges + 1), type \in Backends : MainLoaded(h, type)
    \/ \E type \in Backends : CompilerChange(type)
    \/ \E h \in 1..(MaxChanges + 1) : RunnerCreated(h)
    \/ \E h \in 1..(MaxChanges + 1) : HandlerContinues(h)
    \/ \E h \in 1..(MaxChanges + 1) : HandlerCatches(h)
    \/ ThemeToggle
    \/ \E id \in 1..MaxChanges : TimerFires(id)
    \/ Advance(SwitchDelay)
    \/ \E i \in 1..MaxInitCalls, ok \in BOOLEAN : ImportSettles(i, ok)
    \/ \E i \in 1..MaxInitCalls, ok \in BOOLEAN : EngineInitSettles(i, ok)
    \/ \E k \in 1..MaxCompiles : SwcFetchSettles(k)
    \/ \E k \in 1..MaxCompiles : EsFetchSettles(k)

SpecPage == InitPage /\ [][NextPage]_vars

\* import statements and exporting modules the rewrite is applied to
NamePairs ==
    {<<[imported |-> "B", local |-> "C"]>>,
     <<[imported |-> "B", local |-> "B"]>>,
     <<[imported |-> "B", local |-> "C"], [imported |-> "D", local |-> "D"]>>}

ImportStatements ==
    [form : {"combined", "named", "default", "side-effect"},
     defaultName : {"A"}, names : NamePairs, path : {"@/x", "@/x.jsx", "react"}]

ExportStatements ==
    {<<>>,
     <<[kind |-> "default", name |-> "", value |-> Value("v")]>>,
     <<[kind |-> "const", name |-> "B", value |-> Value("b")]>>,
     <<[kind |-> "const", name |-> "B", value |-> Value("b")],
       [kind |-> "default", name |-> "", value |-> Value("v")]>>,
     <<[kind |-> "function", name |-> "D", value |-> Value("d")],
       [kind |-> "const", name |-> "B", value |-> Value("b")]>>,
     <<[kind |-> "default", name |-> "", value |-> Value("v")],
       [kind |-> "const", name |-> "B", value |-> Value("b")],
       [kind |-> "function", name |-> "D", value |-> Value("d")]>>}

\* the key under which the module behind a specifier is found by require
RegistryKey(path) == IF StartsWith(path, "@/") THEN ModuleMapKey(path) ELSE path

\* resolveImports rewrites import statement st of one module and the export
\* statements of the module st names; the harness then runs both
ApplyResolveImports(st, exports) ==
    /\ applied' = [fn |-> "resolveImports", statement |-> st,
                   rewritten |-> RewriteImport(st),
                   exports |-> ExportsAfter(exports, NoFields),
                   bindings |-> Bindings(RewriteImport(st), NoFields,
                                         RegistryKey(st.path),
                                         ExportsAfter(exports, NoFields))]
    /\ UNCHANGED <<page, files, edits, currentRunner, initialized, engineLoads, initCalls,
                   fileCache, transformedFiles, calls, root, frame>>

InitPure ==
    /\ InitBoot
    /\ files = ChainProject
    /\ currentRunner = "swc"

NextRewrite ==
    \E st \in ImportStatements, exports \in ExportStatements :
        ApplyResolveImports(st, exports)

SpecRewrite == InitPure /\ [][NextRewrite]_vars

\* arguments the bundling engine passes to the resolve hook
ResolvePaths ==
    {"react", "react/jsx-runtime", "react-dom/server", "reactive", "lodash",
     "@/a", "@/lib/utils", "./a", "../a", "../../a", "./../a", ".hidden", "/abs"}

ResolveNamespaces == {"", "virtual", "file"}

ResolveImporters == {"", "@/entry", "@/lib/utils", "@/components/ui/button"}

\* the resolve hook is called with args = {path, namespace, importer}
ApplyOnResolve(path, namespace, importer) ==
    /\ applied' = [fn |-> "onResolve", path |-> path, namespace |-> namespace,
                   importer |-> importer,
                   result |-> onResolve(path, namespace, importer)]
    /\ UNCHANGED <<page, files, edits, currentRunner, initialized, engineLoads, initCalls,
                   fileCache, transformedFiles, calls, root, frame>>

NextResolve ==
    \E path \in ResolvePaths, namespace \in ResolveNamespaces,
       importer \in ResolveImporters :
        ApplyOnResolve(path, namespace, importer)

SpecResolve == InitPure /\ [][NextResolve]_vars

\* options.baseUrl of compile
KeyBaseUrls == {"/src", "/app", "/project/src", "/lib"}

\* alias-prefixed specifiers, without and with an extension
KeySpecifiers ==
    {"@/" \o name \o ext :
        name \in {"entry", "a", "a/b", "lib/utils", "components/ui/button", "x.y"},
        ext \in {"", ".ts", ".tsx", ".jsx", ".js"}}

\* compile({entryPoint, baseUrl}) computes the registry key of specifier,
\* as entry point and as a key of transformedFiles, and resolveImports the
\* target an import of it is rewritten to
ApplyCompileKeys(baseUrl, specifier) ==
    /\ applied' = [fn |-> "compile", baseUrl |-> baseUrl, specifier |-> specifier,
                   entryKey |-> EntryPathResolved(specifier),
                   key |-> ModuleMapKey(specifier),
                   target |-> RequireTarget(specifier)]
    /\ UNCHANGED <<page, files, edits, currentRunner, initialized, engineLoads, initCalls,
                   fileCache, transformedFiles, calls, root, frame>>

NextKeys ==
    \E baseUrl \in KeyBaseUrls, specifier \in KeySpecifiers :
        ApplyCompileKeys(baseUrl, specifier)

SpecKeys == InitPure /\ [][NextKeys]_vars

(***************************************************************************)
(* The execution harness emitted by SwcRunner.compileAndRun, running in    *)
(* the iframe                                                              *)
(***************************************************************************)
PackageSet == Range(ExternalPackages)

\* plain objects used as tables: __cache__
NoObjects == [k \in {} |-> k]

\* o[k] = v
ObjectSet(o, k, v) == [x \in DOMAIN o \cup {k} |-> IF x = k THEN v ELSE o[x]]

\* the module namespace object import(pkg) resolves with
Namespace(pkg) == <<pkg, 0>>

ModuleNotFoundMessage(path) == "Module not found: " \o path

\* what the script engine throws when the call stack is exhausted
RangeErrorMessage == "Maximum call stack size exceeded"

\* an error thrown by the body of a module
FactoryErrorMessage(path) == "Error in " \o path

\* a compile of project fs on an empty cache with nothing else in flight
RECURSIVE SwcLoadAll(_, _, _)
SwcLoadAll(paths, tf, fs) ==
    IF paths = <<>> THEN tf
    ELSE LET data == fetchSourceFile(Head(paths), BaseUrl, fs)
         IN  IF ~MapHas(tf, Head(paths)) /\ data.ok /\ transformOk(data.contents)
             THEN SwcLoadAll(Tail(paths),
                             MapSet(tf, Head(paths),
                                    transformFile(data.contents, Head(paths))), fs)
             ELSE SwcLoadAll(Tail(paths), tf, fs)

SwcCompiles(fs, entryPoint) ==
    LET data == fetchSourceFile(entryPoint, BaseUrl, fs)
    IN  data.ok /\ transformOk(data.contents)

SwcCompiled(fs, entryPoint) ==
    LET data == fetchSourceFile(entryPoint, BaseUrl, fs)
        code == transformFile(data.contents, entryPoint)
        tf   == SwcLoadAll(extractImports(code),
                           MapSet(<<>>, entryPoint, code), fs)
    IN  SwcBuildResult(code, entryPoint, tf)

\* the module script starts: the preamble, one registration per moduleMap
\* entry, then one import() per external package
ScriptStarts ==
    /\ frame.pc = "none"
    /\ root.kind = "iframe" /\ root.script.kind = "swc"
    /\ frame' = [pc       |-> "preloading",
                 modules  |-> DOMAIN root.script.moduleMap,   \* __modules__
                 cache    |-> NoObjects,                      \* __cache__
                 preload  |-> [p \in PackageSet |-> "pending"],
                 all      |-> "pending",                      \* Promise.all(...)
                 entry    |-> "not invoked",
                 stack    |-> <<>>,      \* factory calls in progress
                 execs    |-> [m \in DOMAIN root.script.moduleMap |-> 0],
                 returns  |-> {},        \* <<path, object>> of returned requires
                 error    |-> "",
                 rootHtml |-> "empty"]
    /\ UNCHANGED <<page, applied, files, edits, currentRunner, initialized, engineLoads,
                   initCalls, fileCache, transformedFiles, calls, root>>

\* as PromiseAll, settling like Promise.allSettled
PromiseAll_Settled(preload, before) ==
    IF before /= "pending" THEN before
    ELSE IF \A p \in PackageSet : preload[p] /= "pending" THEN "fulfilled"
    ELSE "pending"

\* Promise.all over the preloads: fulfilled once every one is fulfilled,
\* rejected with the first rejection
PromiseAll(preload, before) ==
    IF before /= "pending" THEN before
    ELSE IF \E p \in PackageSet : preload[p] = "rejected" THEN "rejected"
    ELSE IF \A p \in PackageSet : preload[p] = "fulfilled" THEN "fulfilled"
    ELSE "pending"

\* import(pkg) settles; on success its then-handler fills __cache__[pkg]
PreloadSettles(pkg, ok) ==
    /\ frame.pc = "preloading"
    /\ frame.preload[pkg] = "pending"
    /\ LET preload == [frame.preload EXCEPT ![pkg] =
                           IF ok THEN "fulfilled" ELSE "rejected"]
       IN  frame' = [frame EXCEPT
                        !.preload = preload,
                        !.cache = IF ok THEN ObjectSet(@, pkg, Namespace(pkg)) ELSE @,
                        !.all = PromiseAll(preload, @)]
    /\ UNCHANGED <<page, applied, files, edits, currentRunner, initialized, engineLoads,
                   initCalls, fileCache, transformedFiles, calls, root>>

\* as HarnessThrows, with a catch block that only logs the error
HarnessThrows_LoggedOnly(f, message) ==
    [f EXCEPT !.stack = <<>>, !.entry = "threw", !.error = message, !.pc = "done"]

\* an error leaves every factory call in progress and reaches the catch
\* block of the then-callback, which renders it
HarnessThrows(f, message) ==
    [f EXCEPT !.stack = <<>>, !.entry = "threw", !.error = message,
              !.rootHtml = "error", !.pc = "done"]

\* __require__(path) returns obj to its caller: a factory in progress goes
\* on with its next statement, the then-callback is done
Returned(f, path, obj) ==
    LET g == [f EXCEPT !.returns = @ \cup {<<path, obj>>}]
    IN  IF g.stack = <<>>
        THEN [g EXCEPT !.entry = "returned", !.rootHtml = "app", !.pc = "done"]
        ELSE [g EXCEPT !.stack[Len(g.stack)].ip = @ + 1]

\* __require__(path) up to the point where it has returned the cached
\* exports, thrown, or called the factory with a fresh module object
Require(f, path) ==
    IF path \in DOMAIN f.cache THEN Returned(f, path, f.cache[path])
    ELSE IF path \notin f.modules
    THEN HarnessThrows(f, ModuleNotFoundMessage(path))
    ELSE IF Len(f.stack) >= MaxStack THEN HarnessThrows(f, RangeErrorMessage)
    ELSE [f EXCEPT !.stack = Append(@, [path |-> path, ip |-> 1,
                                        obj |-> <<path, f.execs[path] + 1>>]),
                   !.execs[path] = @ + 1]

\* the then-callback: __require__(entryKey) inside try/catch
EntryRuns ==
    /\ frame.pc = "preloading"
    /\ frame.all = "fulfilled"
    /\ frame.entry = "not invoked"
    /\ frame' = Require([frame EXCEPT !.entry = "running", !.pc = "running"],
                        root.script.entryKey)
    /\ UNCHANGED <<page, applied, files, edits, currentRunner, initialized, engineLoads,
                   initCalls, fileCache, transformedFiles, calls, root>>

\* the factory on top of the stack executes its next require(...)
FactoryRequires ==
    /\ frame.pc = "running"
    /\ frame.stack /= <<>>
    /\ LET top == frame.stack[Len(frame.stack)]
           requires == root.script.moduleMap[top.path].requires
       IN  /\ top.ip <= Len(requires)
           /\ frame' = Require(frame, requires[top.ip])
    /\ UNCHANGED <<page, applied, files, edits, currentRunner, initialized, engineLoads,
                   initCalls, fileCache, transformedFiles, calls, root>>

\* the factory on top of the stack has its imports and runs the rest of
\* its body, the user's program: it throws, or it returns and __require__
\* stores module.exports in __cache__ and returns it
FactoryEnds(throws) ==
    /\ frame.pc = "running"
    /\ frame.stack /= <<>>
    /\ LET top == frame.stack[Len(frame.stack)]
           requires == root.script.moduleMap[top.path].requires
       IN  /\ top.ip > Len(requires)
           /\ frame' =
                 IF throws THEN HarnessThrows(frame, FactoryErrorMessage(top.path))
                 ELSE Returned([frame EXCEPT
                                   !.stack = SubSeq(@, 1, Len(@) - 1),
                                   !.cache = ObjectSet(@, top.path, top.obj)],
                               top.path, top.obj)
    /\ UNCHANGED <<page, applied, files, edits, currentRunner, initialized, engineLoads,
                   initCalls, fileCache, transformedFiles, calls, root>>

\* the catch-callback of the preload chain
PreloadFailureShown ==
    /\ frame.pc = "preloading"
    /\ frame.all = "rejected"
    /\ frame' = [frame EXCEPT !.rootHtml = "failed to load dependencies",
                              !.pc = "failed"]
    /\ UNCHANGED <<page, applied, files, edits, currentRunner, initialized, engineLoads,
                   initCalls, fileCache, transformedFiles, calls, root>>

\* import() promises that are still pending after the chain was rejected
LatePreloadSettles(pkg, ok) ==
    /\ frame.pc = "failed"
    /\ frame.preload[pkg] = "pending"
    /\ frame' = [frame EXCEPT
                    !.preload[pkg] = IF ok THEN "fulfilled" ELSE "rejected",
                    !.cache = IF ok THEN ObjectSet(@, pkg, Namespace(pkg)) ELSE @]
    /\ UNCHANGED <<page, applied, files, edits, currentRunner, initialized, engineLoads,
                   initCalls, fileCache, transformedFiles, calls, root>>

\* the page right after SwcRunner.compileAndRun appended its iframe
InitHarness ==
    /\ files \in {fs \in Projects : SwcCompiles(fs, "@/entry")}
    /\ edits = 0
    /\ currentRunner = "swc"
    /\ initialized = [b \in Backends |-> b = "swc"]
    /\ engineLoads = [b \in Backends |-> IF b = "swc" THEN 1 ELSE 0]
    /\ initCalls = <<>>
    /\ fileCache = [b \in Backends |-> createFileCache]
    /\ transformedFiles = <<>>
    /\ calls = <<>>
    /\ root = SwcIframe(SwcScript(SwcCompiled(files, "@/entry")))
    /\ frame = IdleFrame
    /\ applied = NotApplied
    /\ page = InitialPage

NextHarness ==
    \/ ScriptStarts
    \/ \E p \in PackageSet, ok \in BOOLEAN : PreloadSettles(p, ok)
    \/ EntryRuns
    \/ FactoryRequires
    \/ \E throws \in BOOLEAN : FactoryEnds(throws)
    \/ PreloadFailureShown
    \/ \E p \in PackageSet, ok \in BOOLEAN : LatePreloadSettles(p, ok)

SpecHarness == InitHarness /\ [][NextHarness]_vars

(***************************************************************************)
(* Properties                                                              *)
(***************************************************************************)
CallIds == 1..Len(calls)

\* C1: an iframe created by either runner's compileAndRun carries exactly
\* the sandbox tokens allow-scripts, allow-popups and allow-forms, and never
\* allow-same-origin together with allow-scripts.
C1_SandboxTokens ==
    root.kind = "iframe" =>
        /\ root.sandbox = {"allow-scripts", "allow-popups", "allow-forms"}
        /\ ~({"allow-same-origin", "allow-scripts"} \subseteq root.sandbox)

C1_Witness ==
    /\ root.kind = "iframe"
    /\ \E k \in CallIds : calls[k].pc = "resolved" /\ calls[k].backend = root.backend

\* C2: in the swc harness the entry factory is invoked only after every
\* external package preload has succeeded and every module of the module map
\* is registered; once a preload has failed the entry is never invoked.
C2_EntryAfterPreloads ==
    frame.pc /= "none" =>
        /\ frame.entry /= "not invoked" =>
              /\ \A p \in PackageSet : frame.preload[p] = "fulfilled"
              /\ PackageSet \subseteq DOMAIN frame.cache
              /\ frame.modules = DOMAIN root.script.moduleMap
        /\ (\E p \in PackageSet : frame.preload[p] = "rejected") =>
              frame.entry = "not invoked"

C2_Witness ==
    /\ frame.pc = "done"
    /\ frame.entry = "returned"
    /\ Cardinality(frame.modules) >= 2

\* C3: in SwcRunner.compile a fetch or transform failure of a dependency is
\* caught and the dependency is left out while compile resolves with a
\* result; a fetch or transform failure of the entry file rejects compile.
C3_DependencyFailureSkipped ==
    \A k \in CallIds :
        LET c == calls[k]
        IN  (c.backend = "swc" /\ c.ready /\ Settled(c)) =>
                /\ (c.entryPoint \in c.failed) <=> (c.compiled = "rejected")
                /\ (c.entryPoint \notin c.failed) =>
                      /\ c.compiled = "resolved"
                      /\ c.result.entryPoint \in DOMAIN c.result.moduleMap
                      /\ \A d \in c.failed :
                            ModuleMapKey(d) \notin DOMAIN c.result.moduleMap

C3_Witness ==
    \E k \in CallIds :
        /\ calls[k].backend = "swc"
        /\ calls[k].compiled = "resolved"
        /\ calls[k].failed /= {}

\* the alias specifiers the entry file names for which no source exists
MissingAliasImports(entryPoint) ==
    LET data == fetchSourceFile(entryPoint, BaseUrl, files)
    IN  IF ~data.ok THEN {}
        ELSE {sp \in Range(data.contents.imports) :
                 StartsWith(sp, "@/") /\ PhysicalFile(sp, BaseUrl, files) = ""}

\* C4 as claimed: on either backend, when the entry file references an
\* alias path for which no source exists, compile rejects with an error
\* containing the specifier and compileAndRun creates no iframe.
C4_MissingAliasRejects ==
    \A k \in CallIds :
        LET c == calls[k]
        IN  (c.ready /\ Settled(c)) =>
                \A sp \in MissingAliasImports(c.entryPoint) :
                    /\ c.compiled = "rejected"
                    /\ Includes(c.error, sp)
                    /\ c.pc /= "resolved"

\* C4 amended: the bundling backend rejects with an error containing the
\* specifier and creates no iframe; the transpile-only backend skips the
\* missing dependency, resolves without it and creates the iframe.
C4_MissingAliasPerBackend ==
    \A k \in CallIds :
        LET c == calls[k]
        IN  (c.ready /\ Settled(c)) =>
                \A sp \in MissingAliasImports(c.entryPoint) :
                    IF c.backend = "esbuild"
                    THEN /\ c.compiled = "rejected"
                         /\ Includes(c.error, sp)
                         /\ c.pc /= "resolved"
                         /\ (root.kind = "iframe" => root.script /= EsScript(c.result))
                    ELSE /\ c.compiled = "resolved"
                         /\ c.pc = "resolved"
                         /\ ModuleMapKey(sp) \notin DOMAIN c.result.moduleMap

C4_Witness ==
    \E k \in CallIds :
        /\ calls[k].backend = "esbuild"
        /\ calls[k].pc = "rejected"
        /\ MissingAliasImports(calls[k].entryPoint) /= {}
        /\ \A sp \in MissingAliasImports(calls[k].entryPoint) :
              Includes(calls[k].error, sp)

\* the alias specifiers reachable from a set of specifiers through the
\* `from` clauses of files that can be fetched and transformed
AliasImportsOf(sp) ==
    LET data == fetchSourceFile(sp, BaseUrl, files)
    IN  IF data.ok /\ transformOk(data.contents)
        THEN Range(extractImports(transformFile(data.contents, sp)))
        ELSE {}

RECURSIVE AliasClosure(_)
AliasClosure(set) ==
    LET next == set \cup UNION {AliasImportsOf(sp) : sp \in set}
    IN  IF next = set THEN set ELSE AliasClosure(next)

Loadable(sp) ==
    LET data == fetchSourceFile(sp, BaseUrl, files)
    IN  data.ok /\ transformOk(data.contents)

\* C5 as claimed: after a successful SwcRunner.compile every module that is
\* transitively reachable from the entry through alias imports, and can be
\* fetched and transformed, is a key of the returned module map.
C5_TransitiveClosureRegistered ==
    \A k \in CallIds :
        LET c == calls[k]
        IN  (c.backend = "swc" /\ c.compiled = "resolved") =>
                \A sp \in AliasClosure({c.entryPoint}) :
                    Loadable(sp) => ModuleMapKey(sp) \in DOMAIN c.result.moduleMap

\* the file a registry key or module path stands for, without its extension
StripExtension(path) ==
    LET hits == {i \in 1..Len(Candidates) : EndsWith(path, Candidates[i])}
    IN  IF hits = {} THEN path
        ELSE Substring0(path, Len(path) - Len(Candidates[CHOOSE i \in hits : TRUE]))

KeyStem(key) ==
    StripExtension(IF StartsWith(key, "@/") THEN BaseUrl \o "/" \o Slice(key, 2) ELSE key)

KeysOfFile(moduleMap, f) == {key \in DOMAIN moduleMap : KeyStem(key) = KeyStem(f)}

PrevCall(k) ==
    LET before == {j \in 1..(k - 1) : calls[j].backend = calls[k].backend}
    IN  IF before = {} THEN 0 ELSE CHOOSE j \in before : \A i \in before : i <= j

\* invocation k is the second of two compiles in sequence on one instance,
\* both with clearCache = false and the same options, it has settled, and the
\* project has not changed since the first one was entered
SecondOfTwo(k) ==
    /\ PrevCall(k) /= 0
    /\ Settled(calls[k])
    /\ ~calls[k].overlapped
    /\ ~calls[k].clearCache /\ ~calls[PrevCall(k)].clearCache
    /\ calls[k].entryPoint = calls[PrevCall(k)].entryPoint
    /\ calls[PrevCall(k)].startEdits = edits

\* C7 as claimed: for either backend the second of two compiles in sequence
\* with clearCache = false and unchanged inputs performs no SourceProvider
\* fetch, whatever the project, also when a dependency's fetch fails.
C7_SecondCompileFetchesNothing ==
    \A k \in CallIds : SecondOfTwo(k) => calls[k].fetched = {}

\* C7 amended: the second compile performs no fetch exactly when no module
\* load failed during the first one; a module whose load failed is not
\* cached and is fetched again.
C7_SecondCompileFetchesOnlyFailed ==
    \A k \in CallIds :
        SecondOfTwo(k) =>
            /\ calls[PrevCall(k)].failed = {} => calls[k].fetched = {}
            /\ calls[k].fetched \subseteq calls[PrevCall(k)].failed

C7_Witness ==
    \E k \in CallIds :
        /\ SecondOfTwo(k)
        /\ calls[PrevCall(k)].failed = {}
        /\ Cardinality(calls[PrevCall(k)].fetched) >= 2
        /\ calls[k].compiled = "resolved"
        /\ calls[k].fetched = {}

\* the file a registry key stands for
FileOfKey(key) == CHOOSE f \in FileNames : KeyStem(f) = KeyStem(key)

\* the revisions a resolved compile was built from are the current ones
BuiltFromCurrent(c) ==
    IF c.backend = "swc"
    THEN \A key \in DOMAIN c.result.moduleMap :
             c.result.moduleMap[key].ver = files[FileOfKey(key)].ver
    ELSE \A m \in c.result.code :
             m.ver = files[PhysicalFile(m.path, BaseUrl, files)].ver

\* C8 as claimed: when the content behind a module path has changed before
\* a compile is entered, that compile's output is built from the new
\* content, with or without clearCache.
C8_ChangedContentRebuilt ==
    \A k \in CallIds :
        (calls[k].pc = "resolved" /\ calls[k].startEdits = edits) =>
            BuiltFromCurrent(calls[k])

\* a compile that is entered in this step on an initialized runner with
\* clearCache = true
ClearingEntry ==
    /\ Len(calls') = Len(calls) + 1
    /\ calls'[Len(calls')].clearCache
    /\ calls'[Len(calls')].ready

C9_Step ==
    /\ ClearingEntry =>
          /\ fileCache'[calls'[Len(calls')].backend] = <<>>
          /\ calls'[Len(calls')].backend = "swc" => transformedFiles' = <<>>
    /\ ~ClearingEntry =>
          /\ \A b \in Backends : MapKeys(fileCache[b]) \subseteq MapKeys(fileCache'[b])
          /\ MapKeys(transformedFiles) \subseteq MapKeys(transformedFiles')
    /\ \A k \in 1..Len(calls') :
          (/\ Settled(calls'[k])
           /\ calls'[k].clearCache /\ calls'[k].ready
           /\ ~calls'[k].overlapped)
          => calls'[k].requested \subseteq calls'[k].fetched

C10_Step ==
    \A b \in Backends :
        initialized[b] =>
            /\ initialized'[b]
            /\ engineLoads'[b] = engineLoads[b]
            /\ (Len(initCalls') = Len(initCalls) + 1
                  /\ initCalls'[Len(initCalls')].backend = b)
               => initCalls'[Len(initCalls')].pc = "returned"

\* C10: once an initialize() has completed successfully, every further
\* initialize() returns without loading the engine again and the runner
\* stays initialized.
C10_InitializeIdempotent == [][C10_Step]_vars

C10_Witness ==
    \E i \in 1..Len(initCalls) :
        /\ initCalls[i].late
        /\ initCalls[i].pc = "returned"
        /\ initialized[initCalls[i].backend]
        /\ engineLoads[initCalls[i].backend] = 1


InitErrorOf(b) == IF b = "swc" THEN SwcInitError ELSE EsInitError

C11_Step ==
    /\ Len(calls') = Len(calls) + 1 /\ ~calls'[Len(calls')].ready =>
          /\ calls'[Len(calls')].pc = "rejected"
          /\ calls'[Len(calls')].error = InitErrorOf(calls'[Len(calls')].backend)
          /\ fileCache' = fileCache
          /\ transformedFiles' = transformedFiles
          /\ root' = root
    /\ \A k \in 1..Len(calls') :
          ~calls'[k].ready =>
              /\ calls'[k].fetched = {} /\ calls'[k].requested = {}
              /\ calls'[k].compiled = "rejected"

\* C11: a compile entered while the engine is not initialized (initialize()
\* not called, not finished or failed) rejects with the not-initialized
\* error, asks nothing of the SourceProvider and leaves both caches and the
\* render target as they were, with clearCache = true as well.
C11_UninitializedCompileRejects == [][C11_Step]_vars

C11_Witness ==
    /\ \E i \in 1..Len(initCalls) : initCalls[i].pc = "threw"
    /\ ~initialized[currentRunner]
    /\ \E k \in CallIds :
          /\ ~calls[k].ready /\ calls[k].clearCache
          /\ calls[k].pc = "rejected"
          /\ calls[k].error = InitErrorOf(calls[k].backend)
          /\ calls[k].fetched = {}
\* what a settled invocation of compileApplication leaves in #root
ResultOf(c) ==
    IF c.pc = "resolved"
    THEN (IF c.backend = "swc" THEN SwcIframe(SwcScript(c.result))
          ELSE EsIframe(EsScript(c.result)))
    ELSE ErrorPanel(c.error)

\* invocation k settles in this step
SettlesNow(k) ==
    /\ Settled(calls'[k])
    /\ k > Len(calls) \/ ~Settled(calls[k])

C12_Step ==
    /\ \A k \in 1..Len(calls') : SettlesNow(k) => root' = ResultOf(calls'[k])
    /\ (\A k \in 1..Len(calls') : ~SettlesNow(k)) => root' = root
    /\ \A k \in 1..Len(calls) :
          /\ InFlight(calls[k]) => InFlight(calls'[k]) \/ SettlesNow(k)
          /\ Len(calls') > Len(calls) => calls'[k].pc = calls[k].pc

\* C12: overlapping compileApplication requests do not cancel one another;
\* every request that settles replaces the content of #root by its own
\* result (the iframe of a success, the error panel of a failure) and no
\* other step changes #root, so that #root holds the result of the request
\* that settled last, whichever was started last.
C12_LastSettledIsRendered == [][C12_Step]_vars

C12_Witness ==
    /\ Len(calls) = 2
    /\ calls[1].overlapped /\ calls[2].overlapped
    /\ Settled(calls[1]) /\ Settled(calls[2])
    /\ root = ResultOf(calls[1])
    /\ root /= ResultOf(calls[2])

\* C13 as claimed: no two compiles are in flight at the same time on the
\* runner the host holds.
C13_CompilesExclusive ==
    \A j \in CallIds, k \in CallIds :
        (j /= k /\ calls[j].backend = calls[k].backend)
            => ~(InFlight(calls[j]) /\ InFlight(calls[k]))
\* C14 as claimed: in the harness every registered factory is executed at
\* most once, whatever the requires (nested and mutually recursive ones
\* too), every return of require(path) hands out the same exports object,
\* and a require of a path that is neither registered nor preloaded fails
\* with the module-not-found error.
C14_RequireMemoized ==
    frame.pc \notin {"none"} =>
        /\ \A m \in frame.modules : frame.execs[m] <= 1
        /\ \A r1 \in frame.returns, r2 \in frame.returns :
              r1[1] = r2[1] => r1[2] = r2[2]
        /\ \A r \in frame.returns : r[1] \in frame.modules \cup PackageSet
\* C15 as claimed: after the rewrite a combined or default-only import
\* binds its default name to the default export of the module when the
\* module has one and to the module object otherwise, and every
\* `B as C` of a combined or named import binds C to the export B.
C15_RewriteBindsDefault ==
    (applied.fn = "resolveImports" /\ StartsWith(applied.statement.path, "@/")) =>
        LET st == applied.statement
            ex == applied.exports
            b  == applied.bindings
        IN  /\ st.form \in {"combined", "default"} =>
                  b[st.defaultName] = IF "default" \in DOMAIN ex.fields
                                      THEN ex.fields["default"] ELSE ex
            /\ st.form \in {"combined", "named"} =>
                  \A i \in 1..Len(st.names) :
                      b[st.names[i].local] = GetProp(ex, st.names[i].imported)
\* the paths the rewritten statements pass to require
RequiredPaths(stmts) ==
    {stmts[i].path : i \in {j \in 1..Len(stmts) : stmts[j].op /= "const-pattern"}}

\* C16 as claimed: an import of an alias-rooted specifier is rewritten to
\* require exactly the key under which that module is registered, and an
\* import of a bare or external specifier is rewritten to require the
\* specifier itself, which the dependency walk never discovers.
C16_RewrittenTargetIsRegistryKey ==
    applied.fn = "resolveImports" =>
        LET st == applied.statement
        IN  IF StartsWith(st.path, "@/")
            THEN RequiredPaths(applied.rewritten) = {ModuleMapKey(st.path)}
            ELSE /\ RequiredPaths(applied.rewritten) = {st.path}
                 /\ extractImports([imports |-> <<st.path>>]) = <<>>
\* a specifier on the allowlist: a package name or a path below one
Allowlisted(path) ==
    \E pkg \in PackageSet : path = pkg \/ StartsWith(path, pkg \o "/")

\* C17: the resolve hook answers by the first rule that applies: an
\* allowlisted specifier is external; else an alias-prefixed one is taken,
\* unchanged, into the virtual namespace; else a ./ or ../ specifier of a
\* virtual importer becomes the normalized path below the importer's
\* directory in the virtual namespace; else a specifier that starts with
\* neither "/" nor "." is external; else the hook returns nothing.
C17_ResolveRulesInOrder ==
    applied.fn = "onResolve" =>
        LET path == applied.path
            r    == applied.result
        IN  IF Allowlisted(path) THEN r = [kind |-> "external", path |-> path]
            ELSE IF StartsWith(path, "@/") THEN r = [kind |-> "virtual", path |-> path]
            ELSE IF /\ applied.namespace = "virtual"
                    /\ StartsWith(path, "./") \/ StartsWith(path, "../")
            THEN /\ r.kind = "virtual"
                 /\ r.path = normalizePath(
                        Substring0(applied.importer, LastIndexOf(applied.importer, "/"))
                            \o "/" \o path)
            ELSE IF ~StartsWith(path, "/") /\ ~StartsWith(path, ".")
            THEN r = [kind |-> "external", path |-> path]
            ELSE r.kind = "null"

C17_Witness ==
    /\ applied.fn = "onResolve"
    /\ applied.path = "../a" /\ applied.namespace = "virtual"
    /\ applied.importer = "@/components/ui/button"
    /\ applied.result = [kind |-> "virtual", path |-> "@/components/a"]
\* the directories of an alias-rooted importer below the alias root
DirSegments(importer) ==
    LET segs == SplitSlash(Slice(importer, 2))
    IN  SubSeq(segs, 1, Len(segs) - 1)

\* the alias path of name x in the directory given by segs
InDirectory(segs, x) == "@/" \o JoinSlash(Append(segs, x))

\* the resolve hook was applied to a relative specifier of an alias-rooted
\* importer in the virtual namespace
RelativeFromAlias ==
    /\ applied.fn = "onResolve"
    /\ applied.namespace = "virtual"
    /\ StartsWith(applied.importer, "@/")
    /\ StartsWith(applied.path, "./") \/ StartsWith(applied.path, "../")

\* C18 as claimed: for every alias-rooted importer `./x` resolves to x in
\* the importer's directory and `../x` resolves to x in the parent of that
\* directory.
C18_RelativeToImporterDirectory ==
    RelativeFromAlias =>
        LET dir == DirSegments(applied.importer)
        IN  /\ applied.path = "./a" =>
                  applied.result.path = InDirectory(dir, "a")
            /\ applied.path = "../a" =>
                  /\ dir /= <<>>
                  /\ applied.result.path =
                         InDirectory(SubSeq(dir, 1, Len(dir) - 1), "a")

\* how far below the alias root the walk over segments stands after them,
\* -1 once a `..` has stepped above the root
RECURSIVE DepthAfter(_, _)
DepthAfter(segs, depth) ==
    IF depth < 0 \/ segs = <<>> THEN depth
    ELSE IF Head(segs) = ".." THEN DepthAfter(Tail(segs), depth - 1)
    ELSE IF Head(segs) \in {".", ""} THEN DepthAfter(Tail(segs), depth)
    ELSE DepthAfter(Tail(segs), depth + 1)

\* the `..` segments of the specifier lead above the alias root
CollapsesPastRoot ==
    DepthAfter(SplitSlash(applied.path), Len(DirSegments(applied.importer))) < 0

\* C19 as claimed: a relative specifier whose `..` segments collapse past
\* the alias root is never resolved to a path; the hook rejects it.
C19_PastRootRejected ==
    (RelativeFromAlias /\ CollapsesPastRoot) => applied.result.kind /= "virtual"
\* no two of the module paths in keys denote the same served file
OnePathPerFile(keys) ==
    \A p, q \in keys :
        (/\ PhysicalFile(p, BaseUrl, files) /= ""
         /\ PhysicalFile(p, BaseUrl, files) = PhysicalFile(q, BaseUrl, files))
        => p = q

\* C20 as claimed: within one compile two specifiers that denote the same
\* physical file are one module: the file is fetched once, has one cached
\* source record and at most one transformed module.
C20_OneModulePerFile ==
    /\ \A k \in 1..Len(calls) : OnePathPerFile(calls[k].fetched)
    /\ \A b \in Backends : OnePathPerFile(MapKeys(fileCache[b]))
    /\ OnePathPerFile(MapKeys(transformedFiles))
\* the module paths invocation k handed to the load hook in this step
NewlyRequested(k) ==
    calls'[k].requested \ (IF k <= Len(calls) THEN calls[k].requested ELSE {})

\* invocation k itself takes the step (more than being marked overlapped)
Advances(k) ==
    calls'[k] /= [calls[k] EXCEPT !.overlapped = calls'[k].overlapped]

\* the record the load hook stores for the data of a fetch
LoadRecord(data) == [contents |-> data.contents, loader |-> data.loader]

C21_Step ==
    \A k \in 1..Len(calls') :
        (calls'[k].backend = "esbuild"
           /\ (k > Len(calls) \/ Advances(k))) =>
        /\ \A p \in NewlyRequested(k) :
               MapHas(fileCache'["esbuild"], p) => p \notin calls'[k].fetched
        /\ (k <= Len(calls) /\ InFlight(calls[k])) =>
               LET cur  == calls[k].cur
                   data == fetchSourceFile(cur, BaseUrl, files)
               IN  IF data.ok
                   THEN /\ MapHas(fileCache'["esbuild"], cur)
                        /\ MapGet(fileCache'["esbuild"], cur) = LoadRecord(data)
                        /\ cur \notin calls'[k].failed
                   ELSE /\ fileCache' = fileCache
                        /\ cur \in calls'[k].failed
                        /\ \E i \in 1..Len(calls'[k].errors) :
                              calls'[k].errors[i] = data.message
                        /\ calls'[k].pc = "rejected" =>
                              calls'[k].error = JoinLines(calls'[k].errors)

\* C21: the load hook returns cached contents without a fetch on a hit,
\* fetches and stores the record on a miss, and on a failed fetch leaves the
\* cache unchanged and hands back a diagnostic that ends up in result.errors
\* instead of throwing.
C21_LoadHookNeverThrows == [][C21_Step]_vars

\* an esbuild build met a cached module and a module whose fetch failed,
\* after an earlier build had fetched and stored a module
C21_Witness ==
    \E k, j \in 1..Len(calls) :
        /\ calls[k].backend = "esbuild" /\ calls[j].backend = "esbuild"
        /\ Settled(calls[k])
        /\ calls[k].requested \ calls[k].fetched /= {}
        /\ calls[k].failed /= {}
        /\ \A q \in calls[k].failed : ~MapHas(fileCache["esbuild"], q)
        /\ \E r \in calls[j].fetched \ calls[j].failed :
               MapHas(fileCache["esbuild"], r)
\* C22 as claimed: for every baseUrl b passed to compile, the registry key
\* of an alias-prefixed specifier and the rewritten import target begin
\* with b.
C22_KeysUnderBaseUrl ==
    applied.fn = "compile" =>
        /\ StartsWith(applied.key, applied.baseUrl \o "/")
        /\ StartsWith(applied.entryKey, applied.baseUrl \o "/")
        /\ StartsWith(applied.target, applied.baseUrl \o "/")

\* C23 as claimed: a specifier that already carries an extension resolves
\* to a path ending in exactly that extension; the default extension is
\* appended only to a path without one.
C23_ExtensionKept ==
    applied.fn = "compile" =>
        \A i \in 1..Len(Candidates) :
            EndsWith(applied.specifier, Candidates[i]) =>
                /\ EndsWith(applied.key, Candidates[i])
                /\ EndsWith(applied.entryKey, Candidates[i])
                /\ EndsWith(applied.target, Candidates[i])
\* the alias-prefixed specifiers among the `from` clauses of code
AliasSpecifiers(code) ==
    {code.imports[i] : i \in {j \in 1..Len(code.imports) :
                                 /\ Len(code.imports[j]) > 2
                                 /\ SubSeq(code.imports[j], 1, 2) = "@/"}}

NoDuplicates(seq) == \A i, j \in 1..Len(seq) : seq[i] = seq[j] => i = j

\* C24: the dependency walk of SwcRunner visits exactly the distinct
\* alias-prefixed specifiers of the scanned code, each once; bare and
\* relative specifiers are never discovered, fetched or transformed.
C24_DiscoveryIsAliasOnly ==
    /\ \A k \in 1..Len(calls) :
          calls[k].backend = "swc" =>
            /\ NoDuplicates(calls[k].todo)
            /\ \A p \in Range(calls[k].todo) : p \notin calls[k].requested
            /\ \A p \in Range(calls[k].todo) \cup calls[k].requested
                         \cup calls[k].fetched :
                  p = calls[k].entryPoint \/ p \in AliasSpecifiers(calls[k].entryCode)
            /\ calls[k].pc = "resolved" =>
                  calls[k].requested =
                      {calls[k].entryPoint} \cup AliasSpecifiers(calls[k].entryCode)
    /\ \A p \in MapKeys(transformedFiles) \cup MapKeys(fileCache["swc"]) :
          StartsWith(p, "@/")

\* a compile of an entry with a repeated alias import next to bare and
\* relative imports resolved after loading the alias module alone
C24_Witness ==
    \E k \in 1..Len(calls) :
        /\ calls[k].backend = "swc"
        /\ calls[k].pc = "resolved"
        /\ ~NoDuplicates(calls[k].entryCode.imports)
        /\ "./b" \in Range(calls[k].entryCode.imports)
        /\ "react" \in Range(calls[k].entryCode.imports)
        /\ calls[k].fetched = {"@/entry", "@/a"}
        /\ MapKeys(transformedFiles) = {"@/entry", "@/a"}
C25_Step ==
    /\ root' = root
    /\ calls' = calls
    /\ frame'.pc /= "none" =>
          /\ frame'.entry = "threw" =>
                /\ frame'.pc = "done"
                /\ frame'.error /= ""
                /\ frame'.rootHtml = "error"
          /\ frame'.pc = "failed" =>
                /\ frame'.entry = "not invoked"
                /\ frame'.rootHtml = "failed to load dependencies"
          /\ frame'.all = "rejected" => frame'.pc \in {"preloading", "failed"}

\* C25: in the swc harness an error thrown while the entry factory runs,
\* and a failed preload, end in the error text being put into the root
\* element of the iframe's own document; the host's render target and its
\* compileAndRun invocations are not touched.
C25_HarnessErrorsStayInside == [][C25_Step]_vars

\* the body of the entry module threw and the harness rendered the error
C25_Witness ==
    /\ frame.pc = "done"
    /\ frame.entry = "threw"
    /\ frame.error = FactoryErrorMessage(root.script.entryKey)
    /\ frame.rootHtml = "error"
    /\ root.kind = "iframe"
\* invocation k is rejected in this step
RejectedNow(k) ==
    /\ calls'[k].pc = "rejected"
    /\ k > Len(calls) \/ calls[k].pc /= "rejected"

\* invocation k is resolved in this step
ResolvedNow(k) ==
    /\ calls'[k].pc = "resolved"
    /\ k > Len(calls) \/ calls[k].pc /= "resolved"

C30_Step ==
    /\ \A k \in 1..Len(calls') :
          (RejectedNow(k) /\ ~calls'[k].host) => root' = root
    /\ root' /= root =>
          \E k \in 1..Len(calls') :
              /\ ResolvedNow(k)
              /\ root'.kind = "iframe"
              /\ root'.backend = calls'[k].backend

\* C30: a compileAndRun whose compile fails leaves #root as it was, neither
\* emptied nor given an iframe; #root changes only in the step in which a
\* compile has succeeded, and then to the new iframe.
C30_FailedCompileKeepsRoot == [][C30_Step]_vars

\* a compile failed after an earlier one had rendered, and the iframe of
\* the earlier one is still in #root
C30_Witness ==
    \E j, k \in 1..Len(calls) :
        /\ j < k
        /\ calls[j].pc = "resolved"
        /\ calls[k].pc = "rejected"
        /\ ~calls[k].host
        /\ root = ResultOf(calls[j])
\* C28 as claimed: the engine of a backend type is loaded at most once,
\* also when initialize() calls overlap: a call entered while another is
\* still awaiting the load starts no load of its own.
C28_EngineLoadedOnce ==
    \A i, j \in 1..Len(initCalls) :
        (i < j /\ initCalls[i].backend = initCalls[j].backend
               /\ initCalls[i].pc \in {"import", "init"})
        => initCalls[j].pc \notin {"import", "init"}
DebounceTimers == {t \in page.timers : t.kind = "debounce"}

\* input i was the last one before the time f
LastInputBefore(i, f) ==
    \A j \in 1..Len(page.inputs) : j > i => page.inputs[j] >= f

\* C27: at most one debounce timer is pending, and it is the one set by
\* the last input event, due 500 ms after it; the timer runs
\* compileApplication once, 500 ms after the last input of a burst, and an
\* input followed by another one within less than 500 ms triggers nothing.
C27_DebouncedRecompile ==
    /\ Cardinality(DebounceTimers) <= 1
    /\ \A t \in DebounceTimers :
          /\ page.inputs /= <<>>
          /\ t.id = page.compileTimeout
          /\ t.due = page.inputs[Len(page.inputs)] + DebounceDelay
    /\ \A n, m \in 1..Len(page.debounced) :
          n < m => page.debounced[n] < page.debounced[m]
    /\ \A n \in 1..Len(page.debounced) :
          \E i \in 1..Len(page.inputs) :
              /\ page.inputs[i] + DebounceDelay = page.debounced[n]
              /\ LastInputBefore(i, page.debounced[n])
    /\ \A i \in 1..Len(page.inputs) :
          (/\ page.now > page.inputs[i] + DebounceDelay
           /\ LastInputBefore(i, page.inputs[i] + DebounceDelay + 1))
          => \E n \in 1..Len(page.debounced) :
                 page.debounced[n] = page.inputs[i] + DebounceDelay

\* a burst of three input events was followed by one compileApplication
\* call, 500 ms after the third
C27_Witness ==
    /\ Len(page.inputs) = 3
    /\ page.inputs[1] < page.inputs[2] /\ page.inputs[2] < page.inputs[3]
    /\ page.inputs[3] - page.inputs[1] < DebounceDelay
    /\ page.debounced = <<page.inputs[3] + DebounceDelay>>
    /\ page.timers = {}
    /\ Len(calls) = 1 /\ calls[1].host
\* C29 as claimed: every compileAndRun the host makes is made on a runner
\* whose initialize() has completed.
C29_HostCompilesOnReadyRunner ==
    \A k \in 1..Len(calls) : calls[k].host => calls[k].ready
\* a step in which compileApplication() is entered
CompileApplicationRuns ==
    \/ ThemeToggle
    \/ MainStarts
    \/ \E id \in 1..page.nextTimer : TimerFires(id)
    \/ \E h \in 1..Len(page.handlers) :
          page.handlers[h].kind = "main" /\ HandlerContinues(h)

C26_Step ==
    /\ \A k \in 1..Len(calls') :
          (calls'[k].host /\ SettlesNow(k)) =>
             IF calls'[k].pc = "resolved"
             THEN page'.previewStatus.type = "success"
             ELSE /\ page'.previewStatus.type = "error"
                  /\ root'.kind = "error"
                  /\ root'.message = escapeHtml(calls'[k].error)
    /\ currentRunner = NoRunner =>
          /\ calls' = calls
          /\ CompileApplicationRuns =>
                page'.previewStatus = PreviewStatus("Error", "error")
    /\ (CompileApplicationRuns /\ currentRunner /= NoRunner) =>
          /\ Len(calls') = Len(calls) + 1
          /\ calls'[Len(calls')].host
          /\ calls'[Len(calls')].backend = currentRunner
          /\ InFlight(calls'[Len(calls')]) =>
                page'.previewStatus = PreviewStatus("Compiling...", "loading")

\* C26: every compileApplication() ends inside the function: when its
\* compileAndRun settles the status indicator is set to success or to
\* error, and on a rejection #root gets the error panel with the escaped
\* message; without a runner the status is set to error and no compile is
\* invoked.
C26_CompileApplicationContained == [][C26_Step]_vars

\* the page has shown the error status for the missing runner, and later a
\* compile of the host was rejected and its message is in the error panel
C26_Witness ==
    \E k \in 1..Len(calls) :
        /\ calls[k].host
        /\ calls[k].ready
        /\ calls[k].pc = "rejected"
        /\ root = ErrorPanel(calls[k].error)
        /\ page.previewStatus = PreviewStatus("x Error", "error")
        /\ page.handlers /= <<>>
====
